---- MODULE Spec2Model ----
(***************************************************************************)
(* Browser-session protocol state machine of ms-copilot-gateway:           *)
(* BaseCopilotClient (copilot_clients/base_client.py) with its two         *)
(* subclasses StandardCopilotClient and M365CopilotClient, driven over a   *)
(* Chrome-DevTools-Protocol (CDP) WebSocket.                               *)
(*                                                                         *)
(* Time is counted in units of 0.5 s (the readiness poll interval); it     *)
(* passes in timeouts and sleeps, a message that arrives arrives at once.  *)
(* Texts are sequences of one-character strings.                           *)
(***************************************************************************)
EXTENDS Integers, Sequences, FiniteSets, TLC

VARIABLES
  self,          \* the client object: the fields set in __init__
  co,            \* the caller-facing coroutine: position, locals, outcome
  env,           \* the browser, the page and the chat service
  obs            \* observation (history) variables used by the properties

vars == <<self, co, env, obs>>

-----------------------------------------------------------------------------
(* Bounds of the model *)

MaxCmds == 21        \* commands sent in one run
MaxPending == 2      \* commands whose reply may still arrive
MaxPolls == 5        \* iterations of one readiness polling loop
MaxOps == 3          \* operations (connect, turn, reinitialize, close) per run
MaxChunks == 2       \* chunks one turn may yield
MaxBuffer == 1       \* symbols left in accumulated_payload between frames
MaxReads == 3        \* messages counted in one wait for a reply
MaxMessages == 4      \* messages of a chat completion request
MaxStream == 5        \* symbols of chat payload observed in a turn

(* Program constants, in units of 0.5 s where they are durations *)

FetchAttempts == 10        \* for attempt in range(10)
LaunchSettle == 10         \* asyncio.sleep(5) after Popen
FetchRetryDelay == 4       \* asyncio.sleep(2) between fetch attempts
AttachRecvTimeout == 20    \* wait_for(recv(), timeout=10.0)
RecvTimeout == 10          \* wait_for(recv(), timeout=5.0)
NavigationTimeout == 30    \* navigation_timeout = 15.0
ElementWaitTimeout == 50   \* element_wait_timeout = 25.0
CheckInterval == 1         \* check_interval = 0.5
CaptureTimeout == 40       \* timeout_seconds = 20
CaptureRecvTimeout == 2    \* wait_for(recv(), timeout=1.0)

None == "None"
NoLeak == -1
Max(a, b) == IF a >= b THEN a ELSE b

-----------------------------------------------------------------------------
(* Values exchanged with the browser *)

PageSession == "S1"                 \* session id the browser gives the page
Sessions == {"S1", "S2"}            \* S2: some other attached session
Targets == {"T1", "T2"}
RootNode == 1
ElemNode == 5
AbsentNode == -1                    \* the field is missing from the reply

Domains == <<"Page.enable", "Network.enable", "Runtime.enable", "DOM.enable">>
TargetMethods == {"Target.getTargets", "Target.attachToTarget"}

\* Target.getTargets results: lists of targetInfos
TargetInfo(type, devtools, id) == [type |-> type, devtools |-> devtools, targetId |-> id]
TargetLists ==
  { <<>>,
    <<TargetInfo("page", FALSE, "T1")>>,
    <<TargetInfo("page", TRUE, "T2"), TargetInfo("page", FALSE, "T1")>>,
    <<TargetInfo("service_worker", FALSE, "T2")>>,
    <<TargetInfo("page", FALSE, "T1"), TargetInfo("page", FALSE, "T2")>> }

BlankMsg ==
  [kind |-> "none", id |-> 0, method |-> "", sid |-> "", ok |-> FALSE,
   node |-> 0, str |-> "", tgt |-> "", targets |-> <<>>, url |-> <<>>,
   payload |-> <<>>]

Timeout == [BlankMsg EXCEPT !.kind = "timeout"]
\* recv() called while another task waits in recv() on the same transport
RecvError == [BlankMsg EXCEPT !.kind = "error"]

ReplyOk(id) == [BlankMsg EXCEPT !.kind = "reply", !.id = id, !.ok = TRUE]
ReplyError(id) == [BlankMsg EXCEPT !.kind = "reply", !.id = id, !.ok = FALSE]
Event(method, sid) == [BlankMsg EXCEPT !.kind = "event", !.method = method, !.sid = sid]

\* the replies the browser can give to the pending command p
Replies(p) ==
  {ReplyError(p.id)} \cup
  CASE p.method = "Target.getTargets" ->
         {[ReplyOk(p.id) EXCEPT !.targets = t] : t \in TargetLists}
    [] p.method = "Target.attachToTarget" ->
         {[ReplyOk(p.id) EXCEPT !.str = PageSession]}
    [] p.method = "DOM.getDocument" ->
         {[ReplyOk(p.id) EXCEPT !.node = RootNode]}
    [] p.method = "DOM.querySelector" ->
         {[ReplyOk(p.id) EXCEPT !.node = n] : n \in {ElemNode, 0, AbsentNode}}
    [] OTHER -> {ReplyOk(p.id)}

LoadEvents == {Event("Page.loadEventFired", s) : s \in Sessions}
AttachedEvents ==
  {[Event("Target.attachedToTarget", "") EXCEPT !.tgt = t, !.str = PageSession] : t \in Targets}

\* replies to any command still pending, in any order
PendingReplies == UNION {Replies(p) : p \in env.pending}

\* a leaked capture task, or the turn of a second request, calls recv() on
\* the same transport: the caller's own recv() may find it waiting there
\* and fail
Disturbance ==
  IF co.leaked # NoLeak \/ co.other = "doc_wait" THEN {RecvError} ELSE {}

\* what a recv() on the debug transport can return during setup
SetupArrivals ==
  PendingReplies \cup LoadEvents
    \cup (IF self.page_cdp_session_id = None THEN AttachedEvents ELSE {})
    \cup {Timeout} \cup Disturbance

\* a wait of at most d ended on m: the time that passed at least
Waited(m, d) == IF m.kind = "timeout" THEN d ELSE 0

\* the browser forgets the oldest pending command beyond MaxPending
MinId(P) == CHOOSE i \in {p.id : p \in P} : \A q \in P : i <= q.id
Trim(P) == IF Cardinality(P) > MaxPending THEN {p \in P : p.id # MinId(P)} ELSE P

-----------------------------------------------------------------------------
(* Chat traffic seen through the Network domain *)

ChatRequests == {"R1", "R2"}        \* requestIds of page WebSockets
UrlFilter == <<"w", "s">>           \* websocket_url_filter
Urls == {<<"w", "s", "x">>, <<"x", "w", "s">>, <<"x", "y">>, <<>>}

\* str.startswith and the substring test "p in t"
StartsWithNever(t, p) == FALSE
StartsWith(t, p) == Len(p) <= Len(t) /\ SubSeq(t, 1, Len(p)) = p
Contains(t, p) == \E i \in 0..(Len(t) - Len(p)) : SubSeq(t, i + 1, i + Len(p)) = p

SocketCreatedEvents ==
  {[Event("Network.webSocketCreated", s) EXCEPT !.url = u, !.str = r] :
     s \in Sessions, u \in Urls, r \in ChatRequests}

Hi == <<"H", "i">>
There == <<" ", "t", "h", "e", "r", "e">>
HiThere == Hi \o There
Bye == <<"B", "y", "e">>
RichTexts == {<<>>, Hi, HiThere, Bye}

\* a JSON object of a chat frame, reduced to the keys the decoders read
BlankObj ==
  [event |-> "", type |-> 0, target |-> "", item |-> FALSE,
   hasText |-> FALSE, text |-> <<>>]
BadJson == [BlankObj EXCEPT !.event = "JSONDecodeError"]
AppendText(t) == [BlankObj EXCEPT !.event = "appendText", !.hasText = TRUE, !.text = t]
AppendNoText == [BlankObj EXCEPT !.event = "appendText"]
Done == [BlankObj EXCEPT !.event = "done"]
OtherEvent == [BlankObj EXCEPT !.event = "other"]
Update(t) == [BlankObj EXCEPT !.type = 1, !.target = "update", !.hasText = TRUE, !.text = t]
UpdateNoText == [BlankObj EXCEPT !.type = 1, !.target = "update"]
Item == [BlankObj EXCEPT !.type = 2, !.item = TRUE]
Complete == [BlankObj EXCEPT !.type = 3]
Objects(T) ==
  {AppendText(t) : t \in T} \cup {Update(t) : t \in T}
    \cup {AppendNoText, Done, OtherEvent, UpdateNoText, Item, Complete, BlankObj}

\* payloadData is a string of symbols: a whole serialized object, its first
\* or second half, or the record separator RS = "\x1e"
Whole(o) == [kind |-> "obj", obj |-> o]
Half1(o) == [kind |-> "h1", obj |-> o]
Half2(o) == [kind |-> "h2", obj |-> o]
RS == [kind |-> "rs", obj |-> BlankObj]
\* the payloads of services that send one JSON object per frame
BasicEventPayloads == {<<Whole(AppendText(Hi))>>, <<Whole(Done)>>}
BasicUpdatePayloads == {<<Whole(Update(Hi)), RS>>, <<Whole(Complete), RS>>}
\* ... of an event-tagged service using all texts, with some stray payloads
EventTaggedPayloads ==
  {<<Whole(o)>> : o \in Objects(RichTexts)}
    \cup {<<Whole(AppendText(Hi)), RS>>, <<Half1(AppendText(Hi))>>, <<RS>>}
\* ... and of a delimiter-framed service that also splits objects over
\* frames and batches updates
DelimiterFramedPayloads ==
  {<<Whole(o), RS>> : o \in Objects(RichTexts)}
    \cup {<<Whole(Update(Hi))>>, <<Whole(Complete)>>, <<RS>>}
    \cup UNION {{<<Half1(o)>>, <<Half2(o), RS>>} : o \in {Update(Hi), Update(HiThere), Complete}}
    \cup {<<Whole(Update(a)), RS, Whole(Update(b)), RS>> : a \in {Hi, HiThere}, b \in {Hi, HiThere}}

\* frames of the page's sockets, and a frame of another session
ChatFrames(P) ==
  {[Event("Network.webSocketFrameReceived", PageSession) EXCEPT !.str = r, !.payload = p] :
     r \in ChatRequests, p \in P}
  \cup {[Event("Network.webSocketFrameReceived", s) EXCEPT !.str = r, !.payload = <<Whole(Done), RS>>] :
          s \in Sessions \ {PageSession}, r \in ChatRequests}

\* what a recv() can return while capturing, and while monitoring
CaptureArrivals == PendingReplies \cup SocketCreatedEvents \cup {Timeout}
MonitorArrivals(P) ==
  PendingReplies \cup (IF env.quiet THEN {} ELSE ChatFrames(P)) \cup Disturbance

-----------------------------------------------------------------------------
(* Initial state: a client object right after __init__ *)

NoResult == [op |-> "none", out |-> "none"]

InitSelf(v) ==
  [variant |-> v,
   cdp_message_id_counter |-> 0,
   edge_process |-> None,
   browser_cdp_ws |-> None,
   browser_cdp_url |-> None,
   page_target_id |-> None,
   page_cdp_session_id |-> None,
   is_browser_cdp_connected |-> FALSE,
   is_page_initialized |-> FALSE,
   chat_websocket_request_id |-> None,
   current_m365_chat_ws_request_id |-> None,
   last_full_response_text |-> <<>>,
   is_first_message_sent |-> FALSE]

\* leaked: the time (0.5 s units) for which a capture task that its turn
\* neither awaited nor cancelled has been running; NoLeak when there is none.
\* serving, instance, sse: the HTTP server around the client (main.py): the
\* stage of the request being served, whether copilot_client_instance is
\* set, and the closing items of the event stream.  other, other_cmd: a
\* second request handled at the same time, and the id of its command.
InitCo ==
  [pc |-> "idle", op |-> "none", caller |-> "none", result |-> NoResult,
   cmd_id |-> 0, attempt |-> 0, elapsed |-> 0, root_node_id |-> 0,
   critical_element_found |-> FALSE, load_event_fired_logged |-> FALSE,
   domain_idx |-> 1, accumulated_payload |-> <<>>, yielded |-> <<>>,
   capture_task |-> "none", leaked |-> NoLeak,
   serving |-> "none", instance |-> "none", sse |-> <<>>,
   other |-> "none", other_cmd |-> 0,
   last_final_chat_message |-> <<>>, messages |-> <<>>, stream |-> FALSE,
   final_prompt |-> <<>>, current_full_text |-> <<>>]

\* quiet: the chat service has stopped sending frames
InitEnv ==
  [pending |-> {}, quiet |-> FALSE]

\* took: the message on which the latest wait for a command reply returned;
\* refused: it was an error reply to Target.attachToTarget or Page.navigate;
\* empty: it was a reply to DOM.getDocument or DOM.querySelector with an
\* error, or with no nodeId or nodeId 0
NoTook ==
  [wait |-> "none", cmd |-> 0, id |-> 0, event |-> "", tgt |-> "",
   skipped |-> FALSE, refused |-> FALSE, empty |-> FALSE]

\* cap: the Network.webSocketCreated event on which the capture returned
NoCap ==
  [taken |-> FALSE, sid |-> "", url |-> <<>>, req |-> None,
   rejected |-> FALSE, earlier |-> FALSE]

\* turnCmds: the commands the current turn has sent.
\* reads: the messages the current wait for a reply has received so far,
\* counted up to MaxReads; NoCount where they are not counted
NoCount == -1

\* the message the monitoring loop read last, kept where frames are observed
NoFrame == [on |-> FALSE, m |-> BlankMsg]
ObsFrame(o, m) == IF o.frame.on THEN [o EXCEPT !.frame.m = m] ELSE o

\* how the latest _launch_edge_if_needed went, kept where launches are observed
NoLaunch == [on |-> FALSE, outcome |-> "none"]
ObsLaunch(o, outcome) == IF o.launch.on THEN [o EXCEPT !.launch.outcome = outcome] ELSE o

\* the payloads of the frames the delimiter-framed decoder has taken in
\* the turn, end to end, kept where the cutting of the stream is observed
NoFed == [on |-> FALSE, payload |-> <<>>]
ObsFed(o, payload) == IF o.fed.on THEN [o EXCEPT !.fed.payload = @ \o payload] ELSE o

InitObs ==
  [ops |-> 0, sent |-> 0, lastId |-> 0, idFresh |-> TRUE,
   deadSend |-> FALSE, clicked |-> FALSE, capExpired |-> FALSE,
   took |-> NoTook, skipped |-> FALSE,
   pollCount |-> 0, presentSincePoll |-> 0,
   sentTargetCmd |-> FALSE, fromReady |-> FALSE, wasDirty |-> FALSE,
   snapTarget |-> None, snapSession |-> None, snap |-> InitSelf("standard"),
   fetchFailures |-> 0,
   cap |-> NoCap, appended |-> <<>>, doneSeen |-> FALSE, updates |-> <<>>,
   turnCmds |-> <<>>, reads |-> NoCount, frame |-> NoFrame,
   launch |-> NoLaunch, fed |-> NoFed]

Init ==
  /\ self \in {InitSelf(v) : v \in {"standard", "m365"}}
  /\ co = InitCo
  /\ env = InitEnv
  /\ obs = InitObs

-----------------------------------------------------------------------------
(* _send_cdp_command *)

NextCommandId(s) == s.cdp_message_id_counter + 1

SendCounted(s) == [s EXCEPT !.cdp_message_id_counter = NextCommandId(s)]

WsOpen(s) == s.browser_cdp_ws = "open"

\* the operation returns (or raises): its locals are gone, a capture task
\* that is still running goes on running
Finish(c, out) ==
  [InitCo EXCEPT !.result = [op |-> c.op, out |-> out], !.yielded = c.yielded,
                 !.leaked = IF c.capture_task = "running" THEN 0 ELSE c.leaked,
                 !.serving = c.serving, !.instance = c.instance, !.sse = c.sse,
                 !.other = c.other, !.other_cmd = c.other_cmd,
                 !.last_final_chat_message = c.last_final_chat_message,
                 !.messages = c.messages, !.stream = c.stream,
                 !.final_prompt = c.final_prompt]

\* an operation is called
Begin(c, op, pc) ==
  [InitCo EXCEPT !.op = op, !.pc = pc, !.leaked = c.leaked,
                 !.serving = c.serving, !.instance = c.instance, !.sse = c.sse,
                 !.other = c.other, !.other_cmd = c.other_cmd,
                 !.last_final_chat_message = c.last_final_chat_message,
                 !.messages = c.messages, !.stream = c.stream,
                 !.final_prompt = c.final_prompt]

\* d units of time pass; a capture task gives up after timeout_seconds
Pass(c, d) ==
  [c EXCEPT !.leaked = IF @ = NoLeak \/ @ + d >= CaptureTimeout THEN NoLeak
                       ELSE @ + d]

ObsSend(o, id, method) ==
  [o EXCEPT !.idFresh = (id > o.lastId), !.lastId = Max(o.lastId, id),
            !.sent = @ + 1,
            !.clicked = @ \/ method = "Runtime.evaluate",
            !.sentTargetCmd = @ \/ (o.fromReady /\ method \in TargetMethods),
            !.took = NoTook, !.skipped = FALSE,
            !.turnCmds = IF co.op = "turn" THEN Append(@, method) ELSE @,
            !.reads = IF @ = NoCount THEN NoCount ELSE 0]

EnvSend(e, id, method) ==
  [e EXCEPT !.pending = Trim(@ \cup {[id |-> id, method |-> method]})]

\* await ws.send(...) on a closed transport raises ConnectionClosed, which
\* no caller of _send_cdp_command catches: the operation ends with it
SendFailedSilently(c, cNext) == cNext
SendFailed(c, cNext) == Finish(c, "raised")

\* One call of _send_cdp_command(method); selfNext and coNext are the client
\* and the coroutine after the call returned.  ws.send raises when the
\* transport is closed, after the counter was incremented; no caller
\* catches that exception.
DoSend(method, selfNext, coNext) ==
  /\ obs.sent < MaxCmds
  /\ IF WsOpen(self)
     THEN /\ self' = SendCounted(selfNext)
          /\ co' = [coNext EXCEPT !.cmd_id = NextCommandId(self)]
          /\ env' = EnvSend(env, NextCommandId(self), method)
          /\ obs' = ObsSend(obs, NextCommandId(self), method)
     ELSE /\ self' = SendCounted(self)
          /\ co' = SendFailed(co, coNext)
          /\ obs' = [obs EXCEPT !.took = NoTook, !.sent = @ + 1, !.deadSend = TRUE]
          /\ UNCHANGED env

\* the message m was read from the transport
Consume(e, m) ==
  [e EXCEPT !.pending = {p \in @ : p.id # m.id}]

\* a receive loop read m; took: it returned with m as the outcome of its wait
ObsRecv(o, m, took) ==
  [o EXCEPT !.took = IF took
                     THEN [wait |-> co.pc, cmd |-> co.cmd_id, id |-> m.id,
                           event |-> m.method, tgt |-> m.tgt,
                           skipped |-> o.skipped,
                           refused |-> /\ co.pc \in {"attach_wait", "nav_wait"}
                                       /\ m.id = co.cmd_id /\ ~m.ok,
                           empty |-> /\ co.pc \in {"doc_wait", "query_wait"}
                                     /\ m.id = co.cmd_id
                                     /\ (~m.ok \/ m.node \in {0, AbsentNode})]
                     ELSE NoTook,
            !.skipped = IF took THEN FALSE
                        ELSE @ \/ m.kind \notin {"timeout", "error"},
            !.reads = IF @ = NoCount \/ m.kind \in {"timeout", "error"} THEN @
                      ELSE IF @ < MaxReads THEN @ + 1 ELSE MaxReads]

\* the awaited command timed out: its reply is taken never to arrive
GiveUp(e, id) == [e EXCEPT !.pending = {p \in @ : p.id # id}]

-----------------------------------------------------------------------------
(* close() *)

\* a new operation starts: forget the observations of the previous one
ObsBegin(o) ==
  [InitObs EXCEPT !.ops = o.ops + 1, !.sent = o.sent, !.lastId = o.lastId,
                  !.idFresh = o.idFresh,
                  !.reads = IF o.reads = NoCount THEN NoCount ELSE 0,
                  !.frame = [NoFrame EXCEPT !.on = o.frame.on],
                  !.launch = [NoLaunch EXCEPT !.on = o.launch.on],
                  !.fed = [NoFed EXCEPT !.on = o.fed.on]]

CloseResettingCounter(s) ==
  [s EXCEPT !.browser_cdp_ws = None, !.is_browser_cdp_connected = FALSE,
            !.page_cdp_session_id = None, !.page_target_id = None,
            !.is_page_initialized = FALSE, !.edge_process = None,
            !.cdp_message_id_counter = 0]
Close(s) ==
  LET s1 == IF s.browser_cdp_ws # None
            THEN [s EXCEPT !.browser_cdp_ws = None,
                           !.is_browser_cdp_connected = FALSE,
                           !.page_cdp_session_id = None,
                           !.page_target_id = None,
                           !.is_page_initialized = FALSE]
            ELSE s
  IN  [s1 EXCEPT !.edge_process = None]

\* a call of close() by the coroutine c
CallClose(c) ==
  /\ self' = Close(self)
  /\ co' = [c EXCEPT !.result = [op |-> "close", out |-> "None"]]
  /\ env' = [env EXCEPT !.pending = {}]
  /\ obs' = ObsBegin(obs)

CloseClient ==
  /\ co.pc = "idle"
  /\ obs.ops < MaxOps
  /\ CallClose(co)

\* connect_to_browser_and_page: a failed step closes the client and
\* connect() returns False
FailWithoutClose(s, d) ==
  /\ self' = s
  /\ co' = Finish(Pass(co, d), "False")
  /\ env' = env
FailAndCloseAfter(s, d) ==
  /\ self' = Close(s)
  /\ co' = Finish(Pass(co, d), "False")
  /\ env' = [env EXCEPT !.pending = {}]
FailAndClose(s) == FailAndCloseAfter(s, 0)

\* raise RuntimeError(...) in a turn: no except or finally clause of the
\* turn runs before monitoring starts, the client object stays as it is
TurnRaisesClosing(s) == Close(s)
TurnRaises(s) == s

-----------------------------------------------------------------------------
(* connect() and connect_to_browser_and_page() *)

PageReady(s) ==
  s.is_browser_cdp_connected /\ s.page_cdp_session_id # None /\ s.is_page_initialized

\* a call of connect() by the coroutine c
CallConnect(c) ==
  /\ co' = Begin(c, "connect", "connect_to_browser_and_page")
  /\ obs' = [ObsBegin(obs) EXCEPT
               !.fromReady = PageReady(self),
               !.snap = IF PageReady(self) THEN self ELSE @]
  /\ UNCHANGED <<self, env>>

Connect ==
  /\ co.pc = "idle"
  /\ obs.ops < MaxOps
  /\ CallConnect(co)

\* if self.is_browser_cdp_connected and self.page_cdp_session_id: return True
AlreadyAttachedNever(s) == FALSE
AlreadyAttached(s) == s.is_browser_cdp_connected /\ s.page_cdp_session_id # None

ConnectToBrowserAndPage ==
  /\ co.pc = "connect_to_browser_and_page"
  /\ co' = [co EXCEPT !.pc =
              IF AlreadyAttached(self) THEN "connect_page_init" ELSE "launch"]
  /\ UNCHANGED <<self, env, obs>>

LaunchOutcomes == {"mkdir_failed", "spawn_failed", "exited", "started"}

LaunchEdgeIfNeeded ==
  /\ co.pc = "launch"
  /\ \E outcome \in (IF self.edge_process = "running" THEN {"running"} ELSE LaunchOutcomes) :
       /\ self' = [self EXCEPT !.edge_process =
                     CASE outcome = "running" -> @
                       [] outcome = "mkdir_failed" -> @
                       [] outcome = "started" -> "running"
                       [] OTHER -> None]
       /\ co' = CASE outcome = "running" -> [co EXCEPT !.pc = "cdp_ws"]
                  [] outcome = "started" -> Pass([co EXCEPT !.pc = "cdp_ws"], LaunchSettle)
                  [] outcome = "exited" -> Finish(Pass(co, LaunchSettle), "False")
                  [] OTHER -> Finish(co, "False")
       /\ obs' = ObsLaunch(obs, outcome)
  /\ UNCHANGED env

ConnectToBrowserCdpWs ==
  /\ co.pc = "cdp_ws"
  /\ co' = IF self.browser_cdp_url = None
           THEN [co EXCEPT !.pc = "fetch", !.attempt = 0]
           ELSE [co EXCEPT !.pc = "ws_connect"]
  /\ obs' = [obs EXCEPT !.fetchFailures = 0]
  /\ UNCHANGED <<self, env>>

FetchOutcomes == {"ok", "URLError", "JSONDecodeError", "bad_status", "no_url_field"}

\* for attempt in range(10): is there another iteration after this one
MoreAttemptsOneExtra(c) == c.attempt < FetchAttempts
MoreAttempts(c) == c.attempt + 1 < FetchAttempts

\* one iteration of the loop of _get_browser_cdp_url
GetBrowserCdpUrl ==
  /\ co.pc = "fetch"
  /\ \E outcome \in FetchOutcomes :
       IF outcome = "ok"
       THEN /\ self' = [self EXCEPT !.browser_cdp_url = "url"]
            /\ co' = [co EXCEPT !.pc = "ws_connect", !.attempt = @ + 1]
            /\ UNCHANGED <<env, obs>>
       ELSE IF MoreAttempts(co)
       THEN /\ co' = Pass([co EXCEPT !.attempt = @ + 1], FetchRetryDelay)
            /\ obs' = [obs EXCEPT !.fetchFailures = @ + 1]
            /\ UNCHANGED <<self, env>>
       ELSE /\ FailAndClose(self)
            /\ obs' = [obs EXCEPT !.fetchFailures = @ + 1]

WsConnect ==
  /\ co.pc = "ws_connect"
  /\ \E connected \in BOOLEAN :
       IF connected
       THEN /\ self' = [self EXCEPT !.browser_cdp_ws = "open",
                                    !.is_browser_cdp_connected = TRUE]
            /\ co' = [co EXCEPT !.pc = "targets_send", !.attempt = 0]
            /\ UNCHANGED env
       ELSE FailAndClose([self EXCEPT !.browser_cdp_ws = None,
                                      !.is_browser_cdp_connected = FALSE])
  /\ obs' = [obs EXCEPT !.fetchFailures = 0]

(* _find_page_target_and_attach *)

FindPageTargetSend ==
  /\ co.pc = "targets_send"
  /\ IF ~self.is_browser_cdp_connected \/ self.browser_cdp_ws = None
     THEN FailAndClose(self) /\ UNCHANGED obs
     ELSE DoSend("Target.getTargets", self, [co EXCEPT !.pc = "targets_wait"])

\* first page-type target whose url is not devtools://
FirstPageTarget(infos) ==
  LET good == {i \in 1..Len(infos) : infos[i].type = "page" /\ ~infos[i].devtools}
  IN  IF good = {} THEN None
      ELSE infos[CHOOSE i \in good : \A j \in good : i <= j].targetId

IsReplyToAnyCommand(m, c) == m.kind = "reply"
IsReplyTo(m, c) == m.id = c

FindPageTargetRecv ==
  /\ co.pc = "targets_wait"
  /\ IF ~WsOpen(self)
     THEN FailAndClose(self) /\ UNCHANGED obs
     ELSE \E m \in SetupArrivals :
            IF m.kind \in {"timeout", "error"}
            THEN /\ FailAndCloseAfter(self, Waited(m, AttachRecvTimeout))
                 /\ obs' = ObsRecv(obs, m, FALSE)
            ELSE IF IsReplyTo(m, co.cmd_id)
            THEN LET t == FirstPageTarget(m.targets)
                     s1 == IF m.ok /\ t # None
                           THEN [self EXCEPT !.page_target_id = t] ELSE self
                 IN  /\ obs' = ObsRecv(obs, m, TRUE)
                     /\ IF m.ok /\ s1.page_target_id # None
                        THEN /\ self' = s1
                             /\ co' = [co EXCEPT !.pc = "attach_send"]
                             /\ env' = Consume(env, m)
                        ELSE FailAndClose(s1)
            ELSE /\ obs' = ObsRecv(obs, m, FALSE)
                 /\ env' = Consume(env, m)
                 /\ UNCHANGED <<self, co>>

AttachSend ==
  /\ co.pc = "attach_send"
  /\ DoSend("Target.attachToTarget", self, [co EXCEPT !.pc = "attach_wait"])

IsAttachedEventOfAnyTarget(m, target) ==
  m.method = "Target.attachedToTarget" /\ m.str # ""
IsAttachedEvent(m, target) ==
  m.method = "Target.attachedToTarget" /\ m.tgt = target /\ m.str # ""

AttachRecv ==
  /\ co.pc = "attach_wait"
  /\ IF ~WsOpen(self)
     THEN FailAndClose(self) /\ UNCHANGED obs
     ELSE \E m \in SetupArrivals :
            IF m.kind \in {"timeout", "error"}
            THEN /\ FailAndCloseAfter(self, Waited(m, AttachRecvTimeout))
                 /\ obs' = ObsRecv(obs, m, FALSE)
            ELSE IF (IsReplyTo(m, co.cmd_id) /\ m.ok /\ m.str # "")
                      \/ IsAttachedEvent(m, self.page_target_id)
            THEN /\ self' = [self EXCEPT !.page_cdp_session_id = m.str]
                 /\ co' = [co EXCEPT !.pc = "connect_page_init"]
                 /\ env' = Consume(env, m)
                 /\ obs' = ObsRecv(obs, m, TRUE)
            ELSE IF ~m.ok /\ IsReplyTo(m, co.cmd_id)
            THEN FailAndClose(self) /\ obs' = ObsRecv(obs, m, TRUE)
            ELSE /\ obs' = ObsRecv(obs, m, FALSE)
                 /\ env' = Consume(env, m)
                 /\ UNCHANGED <<self, co>>

\* connect(): navigate only when the page is not initialized yet
ConnectPageInit ==
  /\ co.pc = "connect_page_init"
  /\ co' = IF ~self.is_page_initialized
           THEN [co EXCEPT !.pc = "nav_send"]
           ELSE Finish(co, "True")
  /\ obs' = [obs EXCEPT !.took = NoTook]
  /\ UNCHANGED <<self, env>>


-----------------------------------------------------------------------------
(* _navigate_and_initialize_cdp_domains *)

NavigateSend ==
  /\ co.pc = "nav_send"
  /\ IF ~self.is_browser_cdp_connected \/ self.browser_cdp_ws = None
          \/ self.page_cdp_session_id = None
     THEN /\ co' = Finish(co, "False")
          /\ UNCHANGED <<self, env, obs>>
     ELSE DoSend("Page.navigate", self, [co EXCEPT !.pc = "nav_wait", !.elapsed = 0])

\* entering the readiness polling loop
StartPolling(c) ==
  [c EXCEPT !.pc = "poll_top", !.elapsed = 0, !.critical_element_found = FALSE,
            !.load_event_fired_logged = FALSE]

\* _navigate_and_initialize_cdp_domains returns False and its caller
\* returns False in turn: neither closes or resets anything
NavigationFailedClosing(s) == Close(s)
NavigationFailed(s) == s

\* the reply to Page.navigate has a "result"
NavigateSucceededAlways(m) == TRUE
NavigateSucceeded(m) == m.ok

NavigateRecv ==
  /\ co.pc = "nav_wait"
  /\ IF ~WsOpen(self)
     THEN /\ co' = Finish(co, "False")
          /\ self' = NavigationFailed(self)
          /\ UNCHANGED <<env, obs>>
     ELSE \E m \in SetupArrivals :
            IF m.kind \in {"timeout", "error"}
            THEN /\ co' = Finish(Pass(co, Waited(m, RecvTimeout)), "False")
                 /\ obs' = ObsRecv(obs, m, FALSE)
                 /\ env' = GiveUp(env, co.cmd_id)
                 /\ self' = NavigationFailed(self)
            ELSE /\ env' = Consume(env, m)
                 /\ IF IsReplyTo(m, co.cmd_id)
                    THEN /\ co' = IF NavigateSucceeded(m) THEN StartPolling(co)
                                  ELSE Finish(co, "False")
                         /\ self' = IF NavigateSucceeded(m) THEN self
                                    ELSE NavigationFailed(self)
                         /\ obs' = [ObsRecv(obs, m, TRUE) EXCEPT
                                      !.pollCount = 0, !.presentSincePoll = 0]
                    ELSE /\ co' = IF co.elapsed < NavigationTimeout
                                  THEN co
                                  ELSE Finish(co, "False")
                         /\ self' = self
                         /\ obs' = ObsRecv(obs, m, FALSE)

\* while time.monotonic() - start_element_wait < element_wait_timeout
PollTop ==
  /\ co.pc = "poll_top"
  /\ IF co.elapsed < ElementWaitTimeout
     THEN /\ obs.pollCount < MaxPolls
          /\ co' = [co EXCEPT !.pc = "doc_send", !.caller = "poll"]
          /\ obs' = [obs EXCEPT !.pollCount = @ + 1, !.took = NoTook]
          /\ UNCHANGED self
     ELSE /\ co' = Finish(co, "False")
          /\ obs' = [obs EXCEPT !.took = NoTook]
          /\ self' = NavigationFailed(self)
  /\ UNCHANGED env

\* a helper called by the poll loop or by a turn returned None
HelperReturnedNone(c) ==
  IF c.caller = "poll"
  THEN [c EXCEPT !.pc = "poll_peek", !.root_node_id = 0, !.cmd_id = 0]
  ELSE Finish(c, "raised")

\* time spent in a helper counts for the polling loop only
Spend(c, d) == Pass(IF c.caller = "poll" THEN [c EXCEPT !.elapsed = @ + d] ELSE c, d)

(* _get_document_root_node_id *)

GetDocumentSend ==
  /\ co.pc = "doc_send"
  /\ IF self.browser_cdp_ws = None \/ self.page_cdp_session_id = None
     THEN /\ co' = HelperReturnedNone(co)
          /\ obs' = [obs EXCEPT !.deadSend = TRUE]
          /\ UNCHANGED <<self, env>>
     ELSE DoSend("DOM.getDocument", self, [co EXCEPT !.pc = "doc_wait"])

\* the root nodeId of a DOM.getDocument reply, None when there is no root
DocumentRootAssumed(m) == RootNode
DocumentRoot(m) == IF m.ok /\ m.node > 0 THEN m.node ELSE 0

GetDocumentRecv ==
  /\ co.pc = "doc_wait"
  /\ IF ~WsOpen(self)
     THEN /\ co' = HelperReturnedNone(co)
          /\ UNCHANGED <<self, env, obs>>
     ELSE \E m \in SetupArrivals :
            IF m.kind \in {"timeout", "error"}
            THEN /\ co' = HelperReturnedNone(Spend(co, Waited(m, RecvTimeout)))
                 /\ obs' = ObsRecv(obs, m, FALSE)
                 /\ env' = GiveUp(env, co.cmd_id)
                 /\ UNCHANGED self
            ELSE /\ env' = Consume(env, m)
                 /\ UNCHANGED self
                 /\ IF IsReplyTo(m, co.cmd_id)
                    THEN /\ co' = IF DocumentRoot(m) # 0
                                  THEN [co EXCEPT !.pc = "query_send",
                                                           !.root_node_id = DocumentRoot(m)]
                                  ELSE HelperReturnedNone(co)
                         /\ obs' = ObsRecv(obs, m, TRUE)
                    ELSE /\ co' = co
                         /\ obs' = ObsRecv(obs, m, FALSE)

(* _query_selector_node_id *)

QuerySelectorSend ==
  /\ co.pc = "query_send"
  /\ IF self.browser_cdp_ws = None \/ self.page_cdp_session_id = None
     THEN /\ co' = HelperReturnedNone(co)
          /\ obs' = [obs EXCEPT !.deadSend = TRUE]
          /\ UNCHANGED <<self, env>>
     ELSE DoSend("DOM.querySelector", self, [co EXCEPT !.pc = "query_wait"])

\* the nodeId of a DOM.querySelector reply; 0 stands for None (nodeId 0,
\* nodeId missing (KeyError, caught) or an error reply)
QuerySelectorResultNever(m) == 0
QuerySelectorResult(m) == IF m.ok /\ m.node # 0 /\ m.node # AbsentNode THEN m.node ELSE 0

QuerySelectorRecv ==
  /\ co.pc = "query_wait"
  /\ IF ~WsOpen(self)
     THEN /\ co' = HelperReturnedNone(co)
          /\ UNCHANGED <<self, env, obs>>
     ELSE \E m \in SetupArrivals :
            IF m.kind \in {"timeout", "error"}
            THEN /\ co' = HelperReturnedNone(Spend(co, Waited(m, RecvTimeout)))
                 /\ obs' = ObsRecv(obs, m, FALSE)
                 /\ env' = GiveUp(env, co.cmd_id)
                 /\ UNCHANGED self
            ELSE /\ env' = Consume(env, m)
                 /\ self' = IF IsReplyTo(m, co.cmd_id) /\ QuerySelectorResult(m) = 0
                                 /\ co.caller = "turn"
                            THEN TurnRaises(self) ELSE self
                 /\ IF IsReplyTo(m, co.cmd_id)
                    THEN /\ co' = IF QuerySelectorResult(m) = 0
                                  THEN HelperReturnedNone(co)
                                  ELSE IF co.caller = "poll"
                                  THEN [co EXCEPT !.pc = "enable_domains",
                                                           !.critical_element_found = TRUE,
                                                           !.domain_idx = 1,
                                                           !.root_node_id = 0, !.cmd_id = 0]
                                  ELSE [co EXCEPT !.pc = "focus", !.root_node_id = 0]
                         /\ obs' = [ObsRecv(obs, m, TRUE) EXCEPT
                                      !.presentSincePoll =
                                         IF co.caller = "poll" /\ @ = 0
                                              /\ m.ok /\ m.node = ElemNode
                                         THEN obs.pollCount ELSE @]
                    ELSE /\ co' = co
                         /\ obs' = ObsRecv(obs, m, FALSE)

\* the rest of one iteration of the polling loop: the non-blocking recv for
\* Page.loadEventFired (timeout 0.01 s) and the sleep of check_interval
PollPeek ==
  /\ co.pc = "poll_peek"
  /\ IF co.load_event_fired_logged
     THEN /\ co' = Pass([co EXCEPT !.pc = "poll_top", !.elapsed = @ + CheckInterval],
                        CheckInterval)
          /\ obs' = [obs EXCEPT !.took = NoTook]
          /\ UNCHANGED <<self, env>>
     ELSE IF ~WsOpen(self)
     THEN /\ co' = Finish(co, "raised")
          /\ obs' = [obs EXCEPT !.took = NoTook]
          /\ UNCHANGED <<self, env>>
     ELSE \E m \in SetupArrivals :
            /\ co' = IF m.kind = "error"
                     THEN Finish(co, "raised")
                     ELSE Pass([co EXCEPT !.pc = "poll_top",
                                          !.elapsed = @ + CheckInterval,
                                          !.load_event_fired_logged =
                                             m.method = "Page.loadEventFired"
                                               /\ m.sid = self.page_cdp_session_id],
                               CheckInterval)
            /\ env' = IF m.kind \in {"timeout", "error"} THEN env ELSE Consume(env, m)
            /\ obs' = ObsRecv(obs, m, FALSE)
            /\ UNCHANGED self

\* for domain in ["Page", "Network", "Runtime", "DOM"]: send "<domain>.enable"
EnableDomains ==
  /\ co.pc = "enable_domains"
  /\ IF co.domain_idx < Len(Domains)
     THEN DoSend(Domains[co.domain_idx], self, [co EXCEPT !.domain_idx = @ + 1])
     ELSE DoSend(Domains[co.domain_idx],
                 [self EXCEPT !.is_page_initialized = TRUE], Finish(co, "True"))

-----------------------------------------------------------------------------
(* send_message_and_get_response: the UI steps of a turn *)

\* a call of send_message_and_get_response() by the coroutine c
CallSendMessage(c) ==
  /\ obs' = ObsBegin(obs)
  /\ IF ~self.is_page_initialized \/ self.browser_cdp_ws = None
          \/ self.page_cdp_session_id = None
     THEN /\ co' = Finish(Begin(c, "turn", "idle"), "raised")
          /\ UNCHANGED self
     ELSE /\ co' = [Begin(c, "turn", "doc_send") EXCEPT !.caller = "turn"]
          /\ self' = IF self.variant = "m365"
                     THEN [self EXCEPT !.last_full_response_text = <<>>]
                     ELSE self
  /\ UNCHANGED env

SendMessage ==
  /\ co.pc = "idle"
  /\ obs.ops < MaxOps
  /\ CallSendMessage(co)

\* _focus_node_via_cdp; a False result makes the turn raise RuntimeError
FocusNode ==
  /\ co.pc = "focus"
  /\ IF self.browser_cdp_ws = None \/ self.page_cdp_session_id = None
     THEN /\ co' = Finish(co, "raised")
          /\ obs' = [obs EXCEPT !.deadSend = TRUE]
          /\ UNCHANGED <<self, env>>
     ELSE DoSend("DOM.focus", self, [co EXCEPT !.pc = "insert"])

\* what follows the text input: the M365 client awaits its capture, the
\* standard client creates the capture task when it has no id yet and
\* goes on to the click
CaptureStarts(s, c) ==
  IF s.variant = "m365"
  THEN [c EXCEPT !.pc = "capture", !.elapsed = 0]
  ELSE [c EXCEPT !.pc = "click", !.elapsed = 0,
                 !.capture_task = IF s.chat_websocket_request_id = None
                                  THEN "running" ELSE "none"]

\* _insert_text_via_cdp, and the steps up to the click or the capture
InsertText ==
  /\ co.pc = "insert"
  /\ IF self.browser_cdp_ws = None \/ self.page_cdp_session_id = None
     THEN /\ co' = Finish(co, "raised")
          /\ obs' = [obs EXCEPT !.deadSend = TRUE]
          /\ UNCHANGED <<self, env>>
     ELSE DoSend("Input.insertText", self, CaptureStarts(self, co))

\* after the click the standard client awaits its capture task, when it
\* created one and the task has not returned yet
AfterClick(s, c) ==
  IF s.variant = "standard" /\ c.capture_task = "running"
  THEN "capture" ELSE "monitor"

\* capture_task.cancel()
Cancel(c) == [c EXCEPT !.capture_task = "none"]

\* _click_element_via_js: Runtime.evaluate, sent without waiting for a
\* reply.  A False result makes the standard client cancel the capture task
\* and raise; an exception of the send passes through the turn, which
\* leaves the task as it is.
ClickSubmit ==
  /\ co.pc = "click"
  /\ IF self.browser_cdp_ws = None \/ self.page_cdp_session_id = None
     THEN /\ co' = IF self.variant = "m365"
                   THEN [co EXCEPT !.pc = "monitor"]
                   ELSE Finish(Cancel(co), "raised")
          /\ obs' = [obs EXCEPT !.deadSend = TRUE]
          /\ UNCHANGED <<self, env>>
     ELSE DoSend("Runtime.evaluate", self,
                 [co EXCEPT !.pc = AfterClick(self, co), !.elapsed = 0])

-----------------------------------------------------------------------------
(* _capture_chat_websocket_id and _capture_m365_chat_websocket_id *)

UrlMatches(v, url) ==
  IF v = "standard" THEN StartsWith(url, UrlFilter) ELSE Contains(url, UrlFilter)

CaptureAcceptsAnySession(s, m) ==
  /\ m.method = "Network.webSocketCreated"
  /\ m.url # <<>>
  /\ UrlMatches(s.variant, m.url)
CaptureAccepts(s, m) ==
  /\ m.sid = s.page_cdp_session_id
  /\ m.method = "Network.webSocketCreated"
  /\ m.url # <<>>
  /\ UrlMatches(s.variant, m.url)

\* the captured requestId is stored: by the capture itself in the standard
\* client, by the caller in the M365 client
RecordCapture(s, req) ==
  IF s.variant = "standard"
  THEN [s EXCEPT !.chat_websocket_request_id = req]
  ELSE [s EXCEPT !.current_m365_chat_ws_request_id = req]

\* the capture returned without an id: the turn raises
CaptureGaveUpThenMonitors(c) == [Cancel(c) EXCEPT !.pc = "monitor"]
CaptureGaveUp(c) == Finish(Cancel(c), "raised")

\* the capture returned an id: the caller goes on, at once when it is
\* waiting for the capture, after the click when the task was faster
AfterCapture(s, c) ==
  [Cancel(c) EXCEPT !.pc = CASE s.variant = "m365" -> "click"
                            [] c.pc = "click" -> "click"
                            [] OTHER -> "monitor",
                    !.elapsed = 0]

\* One iteration of the capture loop.  The M365 client awaits the capture
\* before it clicks; the standard client runs it in a task that may read
\* messages while the click is sent (pc = "click") and that it awaits after
\* the click (pc = "capture").  On a closed transport every recv() fails
\* until the 20 s are over; the loop then gives up, which is one step.
CaptureRecv ==
  /\ co.pc = "capture" \/ (co.pc = "click" /\ co.capture_task = "running")
  /\ IF co.pc = "capture"
          /\ (~WsOpen(self) \/ self.page_cdp_session_id = None
                \/ co.elapsed >= CaptureTimeout)
     THEN /\ co' = CaptureGaveUp(Pass(co, Max(0, CaptureTimeout - co.elapsed)))
          /\ self' = TurnRaises(self)
          /\ obs' = [obs EXCEPT !.capExpired = TRUE]
          /\ UNCHANGED env
     ELSE \E m \in CaptureArrivals :
            IF m.kind = "timeout"
            THEN /\ co.pc = "capture"
                 /\ co' = Pass([co EXCEPT !.elapsed = @ + CaptureRecvTimeout],
                               CaptureRecvTimeout)
                 /\ UNCHANGED <<self, env, obs>>
            ELSE /\ WsOpen(self)
                 /\ env' = Consume(env, m)
                 /\ IF CaptureAccepts(self, m)
                    THEN /\ self' = RecordCapture(self, m.str)
                         /\ co' = AfterCapture(self, co)
                         /\ obs' = [obs EXCEPT !.cap =
                                      [taken |-> TRUE, sid |-> m.sid, url |-> m.url,
                                       req |-> m.str, rejected |-> obs.cap.rejected,
                                       earlier |-> obs.cap.earlier]]
                    ELSE /\ obs' = [obs EXCEPT
                                      !.cap.rejected =
                                         @ \/ m.method = "Network.webSocketCreated",
                                      !.cap.earlier =
                                         @ \/ (/\ m.method = "Network.webSocketCreated"
                                               /\ m.sid = self.page_cdp_session_id
                                               /\ IF self.variant = "standard"
                                                  THEN StartsWith(m.url, UrlFilter)
                                                  ELSE Contains(m.url, UrlFilter))]
                         /\ UNCHANGED <<self, co>>

\* One iteration of the loop of a capture task that outlived its turn: it
\* returns when its 20 s are over, and any amount of time may have passed;
\* otherwise it calls recv() on whatever transport the client has now.  On
\* a closed or missing transport the call fails and the loop goes on after
\* 0.1 s; on an open one it takes the next message from the other receivers.
LeakedCaptureStep ==
  /\ co.leaked # NoLeak
  /\ \/ /\ co' = [co EXCEPT !.leaked = NoLeak]
        /\ UNCHANGED <<self, env, obs>>
     \/ /\ WsOpen(self)
        /\ \E m \in PendingReplies \cup SocketCreatedEvents :
             /\ env' = Consume(env, m)
             /\ IF CaptureAccepts(self, m)
                THEN /\ self' = RecordCapture(self, m.str)
                     /\ co' = [co EXCEPT !.leaked = NoLeak]
                ELSE UNCHANGED <<self, co>>
        /\ UNCHANGED obs

-----------------------------------------------------------------------------
(* the frame decoders *)

IsChatFrameOfAnySocket(s, m, req) ==
  /\ m.sid = s.page_cdp_session_id
  /\ m.method = "Network.webSocketFrameReceived"
IsChatFrame(s, m, req) ==
  /\ m.sid = s.page_cdp_session_id
  /\ m.method = "Network.webSocketFrameReceived"
  /\ m.str = req

\* json.loads of a string of symbols
JsonLoads(part) ==
  IF Len(part) = 1 /\ part[1].kind = "obj" THEN part[1].obj
  ELSE IF Len(part) = 2 /\ part[1].kind = "h1" /\ part[2].kind = "h2"
            /\ part[1].obj = part[2].obj
  THEN part[1].obj
  ELSE BadJson

\* payload_json.get("text", "")
StandardChunkDropped(o) == <<>>
StandardChunk(o) == IF o.hasText THEN o.text ELSE <<>>

\* monitoring loop of StandardCopilotClient; P: the payloads the service sends
MonitorStandard(P) ==
  /\ co.pc = "monitor"
  /\ self.variant = "standard"
  /\ IF ~WsOpen(self)
     THEN /\ co' = Finish(co, "raised")
          /\ UNCHANGED <<self, env, obs>>
     ELSE \E m \in MonitorArrivals(P) :
            /\ env' = Consume(env, m)
            /\ LET o == JsonLoads(m.payload)
               IN  IF m.kind = "error"
                   THEN /\ co' = Finish(co, "raised")
                        /\ obs' = ObsFrame(obs, m)
                        /\ UNCHANGED self
                   ELSE IF IsChatFrame(self, m, self.chat_websocket_request_id)
                        /\ o.event = "appendText"
                   THEN /\ Len(co.yielded) < MaxChunks
                        /\ co' = [co EXCEPT !.yielded = Append(@, StandardChunk(o))]
                        /\ obs' = ObsFrame([obs EXCEPT !.appended = Append(@, o.text)], m)
                        /\ UNCHANGED self
                   ELSE IF IsChatFrame(self, m, self.chat_websocket_request_id)
                             /\ o.event = "done"
                   THEN /\ self' = [self EXCEPT !.is_first_message_sent = TRUE]
                        /\ co' = Finish(co, "returned")
                        /\ obs' = ObsFrame([obs EXCEPT !.doneSeen = TRUE], m)
                   ELSE /\ obs' = ObsFrame(obs, m)
                        /\ UNCHANGED <<self, co>>

HasRS(buf) == \E i \in 1..Len(buf) : buf[i].kind = "rs"
FirstRS(buf) ==
  CHOOSE i \in 1..Len(buf) :
    buf[i].kind = "rs" /\ \A j \in 1..(i - 1) : buf[j].kind # "rs"

\* current_full_text[len(self.last_full_response_text):]
AppendedSuffixWhole(last, cur) == cur
AppendedSuffix(last, cur) == SubSeq(cur, Len(last) + 1, Len(cur))

\* the delta of the M365 decoder for a new full text, and whether it warns
DiffChunkSilent(last, cur) ==
  IF last = <<>> THEN [chunk |-> cur, warned |-> FALSE]
  ELSE IF StartsWith(cur, last)
  THEN [chunk |-> AppendedSuffix(last, cur), warned |-> FALSE]
  ELSE [chunk |-> <<>>, warned |-> TRUE]
DiffChunk(last, cur) ==
  IF last = <<>> THEN [chunk |-> cur, warned |-> FALSE]
  ELSE IF StartsWith(cur, last)
  THEN [chunk |-> AppendedSuffix(last, cur), warned |-> FALSE]
  ELSE IF StartsWith(last, cur) THEN [chunk |-> <<>>, warned |-> TRUE]
  ELSE [chunk |-> cur, warned |-> TRUE]

\* if diff_chunk: yield diff_chunk
EmittedAlways(d) == <<d.chunk>>
Emitted(d) == IF d.chunk # <<>> THEN <<d.chunk>> ELSE <<>>

\* while RS in accumulated_payload: split off and handle one message part.
\* out: the chunks yielded so far; log: one entry per update with a text
RECURSIVE ProcessBuffer(_, _, _, _)
ProcessBuffer(buf, last, out, log) ==
  IF ~HasRS(buf)
  THEN [buf |-> buf, last |-> last, out |-> out, log |-> log, done |-> FALSE]
  ELSE LET i == FirstRS(buf)
           part == SubSeq(buf, 1, i - 1)
           rest == SubSeq(buf, i + 1, Len(buf))
           o == JsonLoads(part)
           d == DiffChunk(last, o.text)
       IN  IF part = <<>> THEN ProcessBuffer(rest, last, out, log)
           ELSE IF o.type = 1 /\ o.target = "update"
           THEN IF o.hasText
                THEN ProcessBuffer(rest, o.text, out \o Emitted(d),
                                   Append(log, [prev |-> last, cur |-> o.text,
                                                emitted |-> Emitted(d),
                                                warned |-> d.warned]))
                ELSE ProcessBuffer(rest, last, out, log)
           ELSE IF o.type = 3
           THEN [buf |-> <<>>, last |-> last, out |-> out, log |-> log, done |-> TRUE]
           ELSE ProcessBuffer(rest, last, out, log)

\* accumulated_payload += payload_data_str
AccumulateFrameOnly(buf, payload) == payload
Accumulate(buf, payload) == buf \o payload

\* the finally clause of the M365 monitoring loop
M365Finally(s) ==
  [s EXCEPT !.current_m365_chat_ws_request_id = None, !.is_first_message_sent = TRUE]

\* monitoring loop of M365CopilotClient; P: the payloads the service sends
MonitorM365(P) ==
  /\ co.pc = "monitor"
  /\ self.variant = "m365"
  /\ IF ~WsOpen(self)
     THEN /\ self' = M365Finally(self)
          /\ co' = Finish(co, "raised")
          /\ obs' = [obs EXCEPT !.updates = <<>>]
          /\ UNCHANGED env
     ELSE \E m \in MonitorArrivals(P) :
            /\ env' = Consume(env, m)
            /\ IF m.kind = "error"
               THEN /\ self' = M365Finally(self)
                    /\ co' = Finish(co, "raised")
                    /\ obs' = [obs EXCEPT !.updates = <<>>]
               ELSE IF IsChatFrame(self, m, self.current_m365_chat_ws_request_id)
               THEN LET r == ProcessBuffer(Accumulate(co.accumulated_payload, m.payload),
                                           self.last_full_response_text,
                                           co.yielded, <<>>)
                    IN  /\ Len(r.out) <= MaxChunks
                        /\ Len(r.buf) <= MaxBuffer
                        /\ obs.fed.on => Len(obs.fed.payload) + Len(m.payload) <= MaxStream
                        /\ obs' = ObsFed([obs EXCEPT !.updates = r.log], m.payload)
                        /\ IF r.done
                           THEN /\ self' = M365Finally(
                                             [self EXCEPT !.last_full_response_text = r.last])
                                /\ co' = Finish([co EXCEPT !.yielded = r.out], "returned")
                           ELSE /\ self' = [self EXCEPT !.last_full_response_text = r.last]
                                /\ co' = [co EXCEPT !.yielded = r.out,
                                                    !.accumulated_payload = r.buf]
               ELSE /\ obs' = [obs EXCEPT !.updates = <<>>]
                    /\ UNCHANGED <<self, co>>

\* The same loop with the generator's suspension at each yield as a step
\* of its own.  NextChunk runs the inner while loop from a buffer until it
\* yields (the text of the update not yet stored), returns at a
\* completion, or finds no separator and goes back to recv().
RECURSIVE NextChunk(_, _)
NextChunk(buf, last) ==
  IF ~HasRS(buf)
  THEN [at |-> "recv", buf |-> buf, last |-> last, chunk |-> <<>>, cur |-> <<>>]
  ELSE LET i == FirstRS(buf)
           part == SubSeq(buf, 1, i - 1)
           rest == SubSeq(buf, i + 1, Len(buf))
           o == JsonLoads(part)
           d == DiffChunk(last, o.text)
       IN  IF part = <<>> THEN NextChunk(rest, last)
           ELSE IF o.type = 1 /\ o.target = "update"
           THEN IF ~o.hasText THEN NextChunk(rest, last)
                ELSE IF Emitted(d) = <<>> THEN NextChunk(rest, o.text)
                ELSE [at |-> "yield", buf |-> rest, last |-> last,
                      chunk |-> d.chunk, cur |-> o.text]
           ELSE IF o.type = 3
           THEN [at |-> "return", buf |-> <<>>, last |-> last, chunk |-> <<>>,
                 cur |-> <<>>]
           ELSE NextChunk(rest, last)

\* the loop goes on from the buffer buf with the remembered text last
RunToYield(buf, last) ==
  LET r == NextChunk(buf, last)
  IN  IF r.at = "yield"
      THEN /\ Len(co.yielded) < MaxChunks
           /\ self' = [self EXCEPT !.last_full_response_text = r.last]
           /\ co' = [co EXCEPT !.pc = "yielding",
                               !.yielded = Append(@, r.chunk),
                               !.accumulated_payload = r.buf,
                               !.current_full_text = r.cur]
      ELSE IF r.at = "return"
      THEN /\ self' = M365Finally([self EXCEPT !.last_full_response_text = r.last])
           /\ co' = Finish(co, "returned")
      ELSE /\ self' = [self EXCEPT !.last_full_response_text = r.last]
           /\ co' = [co EXCEPT !.pc = "monitor", !.accumulated_payload = r.buf,
                               !.current_full_text = <<>>]

\* recv() and what follows it up to the next suspension
MonitorM365Stepwise(P) ==
  /\ co.pc = "monitor"
  /\ self.variant = "m365"
  /\ IF ~WsOpen(self)
     THEN /\ self' = M365Finally(self)
          /\ co' = Finish(co, "raised")
          /\ UNCHANGED <<env, obs>>
     ELSE \E m \in MonitorArrivals(P) :
            /\ env' = Consume(env, m)
            /\ IF m.kind = "error"
               THEN /\ self' = M365Finally(self)
                    /\ co' = Finish(co, "raised")
                    /\ UNCHANGED obs
               ELSE IF IsChatFrame(self, m, self.current_m365_chat_ws_request_id)
               THEN /\ obs.fed.on => Len(obs.fed.payload) + Len(m.payload) <= MaxStream
                    /\ obs' = ObsFed(obs, m.payload)
                    /\ RunToYield(Accumulate(co.accumulated_payload, m.payload),
                                  self.last_full_response_text)
               ELSE UNCHANGED <<self, co, obs>>

\* the consumer asks for the next chunk: the text of the update just
\* yielded is stored and the inner loop goes on
ResumeM365 ==
  /\ co.pc = "yielding"
  /\ RunToYield(co.accumulated_payload, co.current_full_text)
  /\ UNCHANGED <<env, obs>>

MonitorStandardFrames == MonitorStandard(BasicEventPayloads)
MonitorM365Frames == MonitorM365(BasicUpdatePayloads)

-----------------------------------------------------------------------------
(* M365CopilotClient.reinitialize_page_session *)

ResetPageStateKeepingFlag(s) ==
  [s EXCEPT !.current_m365_chat_ws_request_id = None,
            !.last_full_response_text = <<>>,
            !.is_page_initialized = FALSE]
ResetPageState(s) ==
  [s EXCEPT !.current_m365_chat_ws_request_id = None,
            !.last_full_response_text = <<>>,
            !.is_first_message_sent = FALSE,
            !.is_page_initialized = FALSE]

\* a call of reinitialize_page_session() by the coroutine c
CallReinitialize(c) ==
  /\ self' = ResetPageState(self)
  /\ co' = Begin(c, "reinit",
                 IF ~self.is_browser_cdp_connected \/ self.page_cdp_session_id = None
                 THEN "connect_to_browser_and_page"
                 ELSE "nav_send")
  /\ obs' = [ObsBegin(obs) EXCEPT
               !.fromReady = PageReady(self),
               !.wasDirty = self.is_first_message_sent
                              /\ self.last_full_response_text # <<>>,
               !.snapTarget = self.page_target_id,
               !.snapSession = self.page_cdp_session_id]
  /\ UNCHANGED env

ReinitializePageSession ==
  /\ co.pc = "idle"
  /\ obs.ops < MaxOps
  /\ self.variant = "m365"
  /\ CallReinitialize(co)

-----------------------------------------------------------------------------
(* the environment *)

TransportDrop ==
  /\ self.browser_cdp_ws = "open"
  /\ self' = [self EXCEPT !.browser_cdp_ws = "closed"]
  /\ env' = [env EXCEPT !.pending = {}]
  /\ UNCHANGED <<co, obs>>

\* the chat service sends nothing more on the page's sockets
ServiceFallsSilent ==
  /\ co.pc = "monitor"
  /\ ~env.quiet
  /\ env' = [env EXCEPT !.quiet = TRUE]
  /\ UNCHANGED <<self, co, obs>>

\* the browser process dies; the client notices at its next poll()
EdgeExits ==
  /\ self.edge_process = "running"
  /\ self.browser_cdp_ws # "open"
  /\ co.pc = "idle"
  /\ self' = [self EXCEPT !.edge_process = "exited"]
  /\ UNCHANGED <<co, env, obs>>

-----------------------------------------------------------------------------

Next ==
  \/ Connect
  \/ ConnectToBrowserAndPage
  \/ LaunchEdgeIfNeeded
  \/ ConnectToBrowserCdpWs
  \/ GetBrowserCdpUrl
  \/ WsConnect
  \/ FindPageTargetSend
  \/ FindPageTargetRecv
  \/ AttachSend
  \/ AttachRecv
  \/ ConnectPageInit
  \/ NavigateSend
  \/ NavigateRecv
  \/ PollTop
  \/ GetDocumentSend
  \/ GetDocumentRecv
  \/ QuerySelectorSend
  \/ QuerySelectorRecv
  \/ PollPeek
  \/ EnableDomains
  \/ SendMessage
  \/ FocusNode
  \/ InsertText
  \/ ClickSubmit
  \/ CaptureRecv
  \/ LeakedCaptureStep
  \/ MonitorStandardFrames
  \/ MonitorM365Frames
  \/ ReinitializePageSession
  \/ CloseClient
  \/ TransportDrop
  \/ EdgeExits

Spec == Init /\ [][Next]_vars

-----------------------------------------------------------------------------
(* The decoders against a chat service that splits and batches *)

\* The client and the browser when a first turn starts to monitor, after the
\* shortest successful connect() (getTargets, attachToTarget, navigate, one
\* readiness check, four enables) and the five commands of the turn
MonitoringSelf(v) ==
  RecordCapture(
    [InitSelf(v) EXCEPT !.cdp_message_id_counter = 14,
                        !.edge_process = "running",
                        !.browser_cdp_ws = "open",
                        !.browser_cdp_url = "url",
                        !.page_target_id = "T1",
                        !.page_cdp_session_id = PageSession,
                        !.is_browser_cdp_connected = TRUE,
                        !.is_page_initialized = TRUE],
    "R1")

MonitoringCo ==
  [InitCo EXCEPT !.op = "turn", !.pc = "monitor", !.caller = "turn", !.cmd_id = 14]

MonitoringEnv ==
  [pending |-> {[id |-> 13, method |-> "Input.insertText"],
                [id |-> 14, method |-> "Runtime.evaluate"]},
   quiet |-> FALSE]

MonitoringObs ==
  [InitObs EXCEPT !.ops = 2, !.sent = 14, !.lastId = 14, !.clicked = TRUE,
                  !.cap = [taken |-> TRUE, sid |-> PageSession,
                           url |-> <<"w", "s", "x">>, req |-> "R1",
                           rejected |-> FALSE, earlier |-> FALSE]]

InitStream ==
  /\ self \in {MonitoringSelf(v) : v \in {"standard", "m365"}}
  /\ co = MonitoringCo
  /\ env = MonitoringEnv
  /\ obs = MonitoringObs

StreamStandard == MonitorStandard(EventTaggedPayloads)
StreamM365 == MonitorM365(DelimiterFramedPayloads)

NextStream ==
  \/ StreamStandard
  \/ StreamM365
  \/ TransportDrop

SpecStream == InitStream /\ [][NextStream]_vars

\* a turn's monitoring loop against a service that may fall silent; the
\* event loop resumes the loop whenever its recv() has a message to return
NextTurn ==
  \/ StreamStandard
  \/ StreamM365
  \/ TransportDrop
  \/ ServiceFallsSilent

SpecTurn ==
  /\ InitStream
  /\ [][NextTurn]_vars
  /\ WF_vars(StreamStandard)
  /\ WF_vars(StreamM365)

\* the event-tagged monitoring loop with each message it reads observed
InitFrames ==
  /\ self = MonitoringSelf("standard")
  /\ co = MonitoringCo
  /\ env = MonitoringEnv
  /\ obs = [MonitoringObs EXCEPT !.frame.on = TRUE]

NextFrames ==
  \/ StreamStandard
  \/ TransportDrop

SpecFrames == InitFrames /\ [][NextFrames]_vars

\* the delimiter-framed monitoring loop fed a stream cut into frames of one
\* or two symbols, with the payloads it takes observed
CutSymbols ==
  {Whole(Update(Hi)), Whole(Update(HiThere)), Whole(Complete),
   Half1(Update(HiThere)), Half2(Update(HiThere)), RS}
CutPayloads ==
  {<<a>> : a \in CutSymbols} \cup {<<a, b>> : a \in CutSymbols, b \in CutSymbols}

InitCuts ==
  /\ self = MonitoringSelf("m365")
  /\ co = MonitoringCo
  /\ env = MonitoringEnv
  /\ obs = [MonitoringObs EXCEPT !.fed.on = TRUE]

StreamCuts == MonitorM365(CutPayloads)

NextCuts ==
  \/ StreamCuts
  \/ TransportDrop

SpecCuts == InitCuts /\ [][NextCuts]_vars

\* ... and with the suspension at each yield as a step, fed single symbols
\* and frames that carry several updates at once
YieldPayloads ==
  {<<a>> : a \in CutSymbols}
    \cup {<<Whole(Update(Hi)), RS, Whole(Update(HiThere)), RS>>,
          <<RS, Whole(Update(HiThere)), RS>>,
          <<RS, Whole(Complete), RS>>}

StepwiseCuts == MonitorM365Stepwise(YieldPayloads)

NextYield ==
  \/ StepwiseCuts
  \/ ResumeM365
  \/ TransportDrop

SpecYield == InitCuts /\ [][NextYield]_vars

\* the initial states of SpecStream are states of Spec
MonitoringReached ==
  /\ self \in {MonitoringSelf(v) : v \in {"standard", "m365"}}
  /\ co = MonitoringCo
  /\ env = MonitoringEnv
  /\ obs = MonitoringObs
MonitoringNeverReached == ~MonitoringReached

-----------------------------------------------------------------------------
(* The monitoring loop of CopilotClient (copilot_client.py) *)

\* Its fields are held in the record of the other clients:
\* websocket_connection as browser_cdp_ws, session_id as
\* page_cdp_session_id, target_id as page_target_id, _cdp_message_id as
\* cdp_message_id_counter.  ConnectionClosed is logged and the generator
\* ends; any other exception becomes RuntimeError; the finally block sets
\* is_first_message_sent on every way out.
MonitorLegacy(P) ==
  /\ co.pc = "monitor"
  /\ self.variant = "legacy"
  /\ IF ~WsOpen(self)
     THEN /\ co' = Finish(co, "returned")
          /\ UNCHANGED <<env, obs>>
     ELSE \E m \in MonitorArrivals(P) :
            /\ env' = Consume(env, m)
            /\ LET o == JsonLoads(m.payload)
               IN  IF m.kind = "error"
                   THEN /\ co' = Finish(co, "raised")
                        /\ UNCHANGED obs
                   ELSE IF IsChatFrame(self, m, self.chat_websocket_request_id)
                        /\ o.event = "appendText"
                   THEN /\ Len(co.yielded) < MaxChunks
                        /\ co' = [co EXCEPT !.yielded = Append(@, StandardChunk(o))]
                        /\ obs' = [obs EXCEPT !.appended = Append(@, o.text)]
                   ELSE IF IsChatFrame(self, m, self.chat_websocket_request_id)
                             /\ o.event = "done"
                   THEN /\ co' = Finish(co, "returned")
                        /\ obs' = [obs EXCEPT !.doneSeen = TRUE]
                   ELSE UNCHANGED <<co, obs>>
  /\ self' = [self EXCEPT !.is_first_message_sent = @ \/ co'.pc = "idle"]

\* The client when its first turn starts to monitor: connect() has sent
\* getTargets, attachToTarget, navigate and the four enables, the turn its
\* five commands; the replies to the last two are unread.
LegacySelf ==
  [InitSelf("legacy") EXCEPT !.cdp_message_id_counter = 12,
                             !.edge_process = "running",
                             !.browser_cdp_ws = "open",
                             !.browser_cdp_url = "url",
                             !.page_target_id = "T1",
                             !.page_cdp_session_id = PageSession,
                             !.is_browser_cdp_connected = TRUE,
                             !.is_page_initialized = TRUE,
                             !.chat_websocket_request_id = "R1"]

LegacyCo ==
  [InitCo EXCEPT !.op = "turn", !.pc = "monitor", !.caller = "turn", !.cmd_id = 12]

LegacyEnv ==
  [pending |-> {[id |-> 11, method |-> "Input.insertText"],
                [id |-> 12, method |-> "Runtime.evaluate"]},
   quiet |-> FALSE]

LegacyObs ==
  [InitObs EXCEPT !.ops = 2, !.sent = 12, !.lastId = 12, !.clicked = TRUE,
                  !.cap = [taken |-> TRUE, sid |-> PageSession,
                           url |-> <<"w", "s", "x">>, req |-> "R1",
                           rejected |-> FALSE, earlier |-> FALSE]]

InitLegacy ==
  /\ self = LegacySelf
  /\ co = LegacyCo
  /\ env = LegacyEnv
  /\ obs = LegacyObs

StreamLegacy == MonitorLegacy(EventTaggedPayloads)

NextLegacy ==
  \/ StreamLegacy
  \/ TransportDrop

SpecLegacy == InitLegacy /\ [][NextLegacy]_vars

-----------------------------------------------------------------------------
(* connect(), reinitialize_page_session() and close() without the turns *)

NextSetup ==
  \/ Connect
  \/ ConnectToBrowserAndPage
  \/ LaunchEdgeIfNeeded
  \/ ConnectToBrowserCdpWs
  \/ GetBrowserCdpUrl
  \/ WsConnect
  \/ FindPageTargetSend
  \/ FindPageTargetRecv
  \/ AttachSend
  \/ AttachRecv
  \/ ConnectPageInit
  \/ NavigateSend
  \/ NavigateRecv
  \/ PollTop
  \/ GetDocumentSend
  \/ GetDocumentRecv
  \/ QuerySelectorSend
  \/ QuerySelectorRecv
  \/ PollPeek
  \/ EnableDomains
  \/ ReinitializePageSession
  \/ CloseClient
  \/ TransportDrop
  \/ EdgeExits

SpecSetup == Init /\ [][NextSetup]_vars

\* ... with the way each launch of the browser went observed
InitLaunch ==
  /\ self \in {InitSelf(v) : v \in {"standard", "m365"}}
  /\ co = InitCo
  /\ env = InitEnv
  /\ obs = [InitObs EXCEPT !.launch.on = TRUE]

SpecLaunch == InitLaunch /\ [][NextSetup]_vars

-----------------------------------------------------------------------------
(* connect() with the messages of each wait for a reply counted *)

InitWait ==
  /\ self \in {InitSelf(v) : v \in {"standard", "m365"}}
  /\ co = InitCo
  /\ env = InitEnv
  /\ obs = [InitObs EXCEPT !.reads = 0]

NextWait ==
  \/ Connect
  \/ ConnectToBrowserAndPage
  \/ LaunchEdgeIfNeeded
  \/ ConnectToBrowserCdpWs
  \/ GetBrowserCdpUrl
  \/ WsConnect
  \/ FindPageTargetSend
  \/ FindPageTargetRecv
  \/ AttachSend
  \/ AttachRecv
  \/ ConnectPageInit
  \/ NavigateSend
  \/ NavigateRecv
  \/ PollTop
  \/ GetDocumentSend
  \/ GetDocumentRecv
  \/ QuerySelectorSend
  \/ QuerySelectorRecv
  \/ PollPeek
  \/ EnableDomains
  \/ TransportDrop

SpecWait == InitWait /\ [][NextWait]_vars

-----------------------------------------------------------------------------
(* The HTTP server around the client (main.py, client_factory.py) *)

CopilotTypes == {"standard", "m365", "unknown"}

\* what a client class defines or inherits as a concrete method
Methods(t) ==
  IF t = "standard"
  THEN {"connect", "send_message_and_get_response", "close"}
  ELSE IF t = "m365"
  THEN {"connect", "send_message_and_get_response",
        "reinitialize_page_session", "close"}
  ELSE {}

\* the @abstractmethod declarations of BaseCopilotClient(ABC)
AbstractMethods ==
  {"connect", "send_message_and_get_response", "reinitialize_page_session"}

\* CopilotClientFactory.create_client: the class is instantiated, which
\* raises TypeError while an abstract method is not overridden
CreateClient(t) ==
  IF t \notin {"standard", "m365"} THEN "None"
  ELSE IF AbstractMethods \subseteq Methods(t) THEN "client"
  ELSE "TypeError"

\* lifespan, up to the call of connect()
Lifespan ==
  /\ co.serving = "starting"
  /\ IF CreateClient(self.variant) = "client"
     THEN CallConnect([co EXCEPT !.serving = "startup", !.instance = "client"])
     ELSE /\ co' = [co EXCEPT !.serving =
                      IF CreateClient(self.variant) = "None" THEN "up"
                      ELSE "crashed"]
          /\ UNCHANGED <<self, env, obs>>

\* lifespan: connect() came back, the server starts accepting requests
\* (an exception out of connect() ends the startup)
ServerUp ==
  /\ co.serving = "startup"
  /\ co.pc = "idle"
  /\ co' = [co EXCEPT !.serving = IF co.result.out = "raised" THEN "crashed"
                                  ELSE "up"]
  /\ UNCHANGED <<self, env, obs>>

\* the check at the head of chat_completions and of the generator
ClientUsable(c, s) ==
  /\ c.instance = "client"
  /\ s.is_browser_cdp_connected
  /\ s.page_cdp_session_id # None

\* ChatMessage(role, content), the content reduced to a string ("" when
\* it is blank after strip()); pydantic compares messages field by field
ChatMessage(r, c) == [role |-> r, content |-> c]
ChatMessages ==
  {ChatMessage("user", "a"), ChatMessage("user", "b"),
   ChatMessage("assistant", "a"), ChatMessage("user", "")}

RolePrefix(r) ==
  IF r = "system" THEN "System: "
  ELSE IF r = "user" THEN "User: "
  ELSE IF r = "assistant" THEN "Assistant: "
  ELSE ""

\* processing mode "all": every message with non-blank content, each with
\* its role prefix (a prompt is held as the list of its parts)
RECURSIVE PromptOfAll(_)
PromptOfAll(msgs) ==
  IF msgs = <<>> THEN <<>>
  ELSE (IF msgs[1].content # ""
        THEN <<[prefix |-> RolePrefix(msgs[1].role), text |-> msgs[1].content]>>
        ELSE <<>>) \o PromptOfAll(Tail(msgs))

\* processing mode "last": the content of the last user message
PromptOfLast(msgs) ==
  LET U == {i \in 1..Len(msgs) : msgs[i].role = "user"}
      i == CHOOSE k \in U : \A j \in U : j <= k
  IN  IF U = {} \/ msgs[i].content = "" THEN <<>>
      ELSE <<[prefix |-> "", text |-> msgs[i].content]>>

\* "last" once the client has is_first_message_sent, "all" before
ProcessingMode(s) == IF s.is_first_message_sent THEN "last" ELSE "all"
ProcessedPrompt(s, msgs) ==
  IF ProcessingMode(s) = "last" THEN PromptOfLast(msgs) ELSE PromptOfAll(msgs)

\* is_new_session of chat_completions; last_final_chat_message is <<>>
\* for None and <<m>> for a stored message m
IsNewSession(msgs, lfc) ==
  IF msgs = <<>> \/ lfc = <<>> THEN TRUE
  ELSE LET pattern1 == Len(msgs) >= 3 /\ msgs[Len(msgs) - 2] = lfc[1]
           pattern2 == Len(msgs) >= 2 /\ msgs[Len(msgs) - 1] = lfc[1]
       IN  ~pattern1 /\ ~pattern2

\* chat_completions up to its first await, for a request with messages
\* from R and stream from S: 503 without a usable client, 400 on an empty
\* prompt, reinitialize_page_session() for a new session, else connect()
ChatCompletionsOf(R, S) ==
  /\ co.serving = "up"
  /\ co.pc = "idle"
  /\ \E msgs \in R, st \in S :
       LET c == [co EXCEPT !.messages = msgs, !.stream = st,
                           !.final_prompt = ProcessedPrompt(self, msgs)]
       IN  IF ~ClientUsable(co, self)
           THEN /\ co' = [co EXCEPT !.serving = "refused"]
                /\ UNCHANGED <<self, env, obs>>
           ELSE IF c.final_prompt = <<>>
           THEN /\ co' = [c EXCEPT !.serving = "rejected"]
                /\ UNCHANGED <<self, env, obs>>
           ELSE IF IsNewSession(msgs, co.last_final_chat_message)
                   /\ "reinitialize_page_session" \in Methods(self.variant)
           THEN CallReinitialize([c EXCEPT !.serving = "reinit"])
           ELSE CallConnect([c EXCEPT !.serving = "connect"])

\* the requests of the served session: one prompt, and a blank one
ServeRequests == {<<ChatMessage("user", "a")>>, <<ChatMessage("user", "")>>}
ChatCompletions == ChatCompletionsOf(ServeRequests, BOOLEAN)

\* chat_completions after reinitialize_page_session(): 503 when it returned
\* False, or the prompt is rebuilt from all messages and connect() is
\* called; an exception out of it is not caught and the reply is 500
AfterReinitialize ==
  /\ co.serving = "reinit"
  /\ co.pc = "idle"
  /\ IF co.result.out = "True"
     THEN CallConnect([co EXCEPT !.serving = "connect",
                                 !.final_prompt =
                                    IF PromptOfAll(co.messages) # <<>>
                                    THEN PromptOfAll(co.messages) ELSE @])
     ELSE /\ co' = [co EXCEPT !.serving = IF co.result.out = "raised"
                                          THEN "failed" ELSE "refused"]
          /\ UNCHANGED <<self, env, obs>>

\* chat_completions after connect(): 503 (500 when it raised); or, streaming, the last message
\* is stored and the StreamingResponse is returned with the generator not
\* yet started; or, not streaming, the turn is started
AfterConnect ==
  /\ co.serving = "connect"
  /\ co.pc = "idle"
  /\ IF co.result.out # "True"
     THEN /\ co' = [co EXCEPT !.serving = IF co.result.out = "raised"
                                          THEN "failed" ELSE "refused"]
          /\ UNCHANGED <<self, env, obs>>
     ELSE IF co.stream
     THEN /\ co' = [co EXCEPT !.serving = "response",
                              !.last_final_chat_message =
                                 <<co.messages[Len(co.messages)]>>]
          /\ UNCHANGED <<self, env, obs>>
     ELSE CallSendMessage([co EXCEPT !.serving = "collect"])

\* chat_completions, not streaming, after the turn: the last message is
\* stored and the completion returned; when the turn raised the reply is
\* 503 for a RuntimeError and 500 for any other exception
CollectEnds ==
  /\ co.serving = "collect"
  /\ co.pc = "idle"
  /\ co' = IF co.result.out = "returned"
           THEN [co EXCEPT !.serving = "replied",
                           !.last_final_chat_message =
                              <<co.messages[Len(co.messages)]>>]
           ELSE [co EXCEPT !.serving = "errored"]
  /\ UNCHANGED <<self, env, obs>>

\* the closing items of the event stream
StreamRefused == <<"error", "[DONE]">>
StreamClosingNoDone(out) == IF out = "returned" THEN <<"stop", "[DONE]">> ELSE <<"error">>
StreamClosing(out) ==
  IF out = "returned" THEN <<"stop", "[DONE]">> ELSE <<"error", "[DONE]">>

\* stream_response_generator, from its start to the call of
\* send_message_and_get_response
StreamResponseGenerator ==
  /\ co.serving = "response"
  /\ co.pc = "idle"
  /\ IF ~ClientUsable(co, self)
     THEN /\ co' = [co EXCEPT !.serving = "done", !.sse = StreamRefused]
          /\ UNCHANGED <<self, env, obs>>
     ELSE CallSendMessage([co EXCEPT !.serving = "stream"])

\* stream_response_generator after the turn: the final chunk when the loop
\* ended, the error chunk in the except clauses, [DONE] in the finally
StreamEnds ==
  /\ co.serving = "stream"
  /\ co.pc = "idle"
  /\ co' = [co EXCEPT !.serving = "done", !.sse = StreamClosing(co.result.out)]
  /\ UNCHANGED <<self, env, obs>>

\* every item of the event stream so far: a data chunk per yielded text,
\* then the closing items
SseItems(c) == [i \in 1..Len(c.yielded) |-> "chunk"] \o c.sse

\* lifespan after the yield: the server shuts down between two awaits of
\* the request
LifespanShutdown ==
  /\ co.serving \in {"up", "response", "done", "refused", "rejected", "replied",
                     "failed", "errored"}
  /\ co.pc = "idle"
  /\ co.instance = "client"
  /\ co.result.op # "close"
  /\ CallClose(co)

\* A second request arrives while the first one streams.  It continues the
\* session of the first (no reinitialization); when it is not refused,
\* connect() finds the page ready and returns at once, and the generator
\* of the request is about to start a turn of its own.
OtherRequest ==
  /\ co.serving = "stream"
  /\ co.op = "turn"
  /\ co.other = "none"
  /\ ClientUsable(co, self) => PageReady(self)
  /\ co' = [co EXCEPT !.other = IF ClientUsable(co, self) THEN "response"
                                ELSE "refused"]
  /\ UNCHANGED <<self, env, obs>>

\* the second turn up to its first command, DOM.getDocument
OtherTurnSends ==
  /\ co.other = "response"
  /\ obs.sent < MaxCmds
  /\ IF ~ClientUsable(co, self) \/ ~self.is_page_initialized
          \/ self.browser_cdp_ws = None
     THEN /\ co' = [co EXCEPT !.other = "raised"]
          /\ UNCHANGED <<self, env, obs>>
     ELSE LET s == IF self.variant = "m365"
                   THEN [self EXCEPT !.last_full_response_text = <<>>]
                   ELSE self
          IN  /\ self' = SendCounted(s)
              /\ obs' = [obs EXCEPT !.sent = @ + 1]
              /\ IF WsOpen(self)
                 THEN /\ co' = [co EXCEPT !.other = "doc_wait",
                                          !.other_cmd = NextCommandId(self)]
                      /\ env' = EnvSend(env, NextCommandId(self),
                                        "DOM.getDocument")
                 ELSE /\ co' = [co EXCEPT !.other = "raised"]
                      /\ UNCHANGED env

\* the second turn waits for the reply: its recv() takes messages off the
\* same transport, and fails when the first turn is waiting there
OtherTurnRecv ==
  /\ co.other = "doc_wait"
  /\ IF ~WsOpen(self)
     THEN /\ co' = [co EXCEPT !.other = "raised"]
          /\ UNCHANGED <<self, env, obs>>
     ELSE \E m \in PendingReplies \cup LoadEvents \cup {Timeout}
                    \cup (IF co.op = "turn" THEN {RecvError} ELSE {}) :
            /\ UNCHANGED <<self, obs>>
            /\ IF m.kind \in {"timeout", "error"}
               THEN /\ co' = [co EXCEPT !.other = "raised"]
                    /\ env' = GiveUp(env, co.other_cmd)
               ELSE /\ env' = Consume(env, m)
                    /\ co' = IF IsReplyTo(m, co.other_cmd)
                             THEN [co EXCEPT !.other =
                                     IF DocumentRoot(m) # 0 THEN "doc_known"
                                     ELSE "raised"]
                             ELSE co

InitServe ==
  /\ self \in {InitSelf(t) : t \in CopilotTypes}
  /\ co = [InitCo EXCEPT !.serving = "starting"]
  /\ env = InitEnv
  /\ obs = InitObs

\* the standard client is never created, so its capture task and its
\* frame decoder never run here
NextServe ==
  \/ Lifespan
  \/ ServerUp
  \/ ChatCompletions
  \/ AfterReinitialize
  \/ AfterConnect
  \/ StreamResponseGenerator
  \/ StreamEnds
  \/ CollectEnds
  \/ LifespanShutdown
  \/ OtherRequest
  \/ OtherTurnSends
  \/ OtherTurnRecv
  \/ ConnectToBrowserAndPage
  \/ LaunchEdgeIfNeeded
  \/ ConnectToBrowserCdpWs
  \/ GetBrowserCdpUrl
  \/ WsConnect
  \/ FindPageTargetSend
  \/ FindPageTargetRecv
  \/ AttachSend
  \/ AttachRecv
  \/ ConnectPageInit
  \/ NavigateSend
  \/ NavigateRecv
  \/ PollTop
  \/ GetDocumentSend
  \/ GetDocumentRecv
  \/ QuerySelectorSend
  \/ QuerySelectorRecv
  \/ PollPeek
  \/ EnableDomains
  \/ FocusNode
  \/ InsertText
  \/ ClickSubmit
  \/ CaptureRecv
  \/ MonitorM365Frames
  \/ TransportDrop
  \/ EdgeExits

SpecServe == InitServe /\ [][NextServe]_vars

\* chat_completions deciding about requests that follow earlier ones: the
\* server is up with its M365 client attached to a ready page, or closed,
\* after requests that left any of the messages, or none, stored
Requests == UNION {[1..n -> ChatMessages] : n \in 0..MaxMessages}

ServingSelf(sent) ==
  [MonitoringSelf("m365") EXCEPT !.current_m365_chat_ws_request_id = None,
                                 !.cdp_message_id_counter = 15,
                                 !.is_first_message_sent = sent]

InitContinuity ==
  /\ self \in {ServingSelf(f) : f \in BOOLEAN}
              \cup {Close(ServingSelf(f)) : f \in BOOLEAN}
  /\ co \in {[InitCo EXCEPT !.serving = "up", !.instance = "client",
                             !.last_final_chat_message = lfc] :
               lfc \in {<<>>} \cup {<<m>> : m \in ChatMessages}}
  /\ env = InitEnv
  /\ obs = [InitObs EXCEPT !.ops = 4, !.sent = 15, !.lastId = 15]

ChatCompletionsAny == ChatCompletionsOf(Requests, BOOLEAN)

NextContinuity == ChatCompletionsAny

SpecContinuity == InitContinuity /\ [][NextContinuity]_vars

-----------------------------------------------------------------------------
(* A capture task that outlived its turn *)

\* The standard client after a first turn whose click could not be sent:
\* the shortest successful connect(), the four commands of the turn up to
\* Input.insertText, then the transport closed and the send of
\* Runtime.evaluate raised.  The capture task of that turn has just started
\* its 20 s.
LeakSelf ==
  [InitSelf("standard") EXCEPT !.cdp_message_id_counter = 14,
                               !.edge_process = "running",
                               !.browser_cdp_ws = "closed",
                               !.browser_cdp_url = "url",
                               !.page_target_id = "T1",
                               !.page_cdp_session_id = PageSession,
                               !.is_browser_cdp_connected = TRUE,
                               !.is_page_initialized = TRUE]

LeakCo ==
  [InitCo EXCEPT !.result = [op |-> "turn", out |-> "raised"], !.leaked = 0]

\* the operations and commands of the run are counted from here
LeakObs ==
  [InitObs EXCEPT !.lastId = 13, !.deadSend = TRUE]

InitLeak ==
  /\ self = LeakSelf
  /\ co = LeakCo
  /\ env = InitEnv
  /\ obs = LeakObs

\* (the endpoint address is cached: connect() fetches none)
NextLeak ==
  \/ Connect
  \/ ConnectToBrowserAndPage
  \/ LaunchEdgeIfNeeded
  \/ ConnectToBrowserCdpWs
  \/ WsConnect
  \/ FindPageTargetSend
  \/ FindPageTargetRecv
  \/ AttachSend
  \/ AttachRecv
  \/ ConnectPageInit
  \/ NavigateSend
  \/ NavigateRecv
  \/ PollTop
  \/ GetDocumentSend
  \/ GetDocumentRecv
  \/ QuerySelectorSend
  \/ QuerySelectorRecv
  \/ PollPeek
  \/ EnableDomains
  \/ SendMessage
  \/ FocusNode
  \/ InsertText
  \/ ClickSubmit
  \/ CaptureRecv
  \/ LeakedCaptureStep
  \/ MonitorStandardFrames
  \/ CloseClient
  \/ TransportDrop
  \/ EdgeExits

SpecLeak == InitLeak /\ [][NextLeak]_vars

\* the initial state of SpecLeak is a state of Spec, two operations and
\* fourteen commands into its run
LeakReached ==
  /\ self = LeakSelf
  /\ co = LeakCo
  /\ env = InitEnv
  /\ obs = [LeakObs EXCEPT !.ops = 2, !.sent = 14]
LeakNeverReached == ~LeakReached

-----------------------------------------------------------------------------
(* close() after a turn, then a new session *)

\* A client whose first turn has returned and which was then closed; the
\* operations of the run are counted from that close(), the commands from
\* there on.
ClosedSelf(v) ==
  Close(IF v = "standard"
        THEN [MonitoringSelf(v) EXCEPT !.is_first_message_sent = TRUE]
        ELSE M365Finally(MonitoringSelf(v)))

ClosedCo == [InitCo EXCEPT !.result = [op |-> "close", out |-> "None"]]

ClosedObs == [InitObs EXCEPT !.ops = 1, !.lastId = 14]

InitReconnect ==
  /\ self \in {ClosedSelf(v) : v \in {"standard", "m365"}}
  /\ co = ClosedCo
  /\ env = InitEnv
  /\ obs = ClosedObs

\* (the endpoint address is cached, and no capture task outlives a turn)
NextReconnect ==
  \/ Connect
  \/ ConnectToBrowserAndPage
  \/ LaunchEdgeIfNeeded
  \/ ConnectToBrowserCdpWs
  \/ WsConnect
  \/ FindPageTargetSend
  \/ FindPageTargetRecv
  \/ AttachSend
  \/ AttachRecv
  \/ ConnectPageInit
  \/ NavigateSend
  \/ NavigateRecv
  \/ PollTop
  \/ GetDocumentSend
  \/ GetDocumentRecv
  \/ QuerySelectorSend
  \/ QuerySelectorRecv
  \/ PollPeek
  \/ EnableDomains
  \/ SendMessage
  \/ FocusNode
  \/ InsertText
  \/ ClickSubmit
  \/ CaptureRecv
  \/ MonitorStandardFrames
  \/ MonitorM365Frames
  \/ ReinitializePageSession
  \/ CloseClient
  \/ TransportDrop
  \/ EdgeExits

SpecReconnect == InitReconnect /\ [][NextReconnect]_vars

\* the initial states of SpecReconnect are states of Spec, three
\* operations and fourteen commands into its run
ReconnectReached ==
  /\ self \in {ClosedSelf(v) : v \in {"standard", "m365"}}
  /\ co = ClosedCo
  /\ env = InitEnv
  /\ obs = [ClosedObs EXCEPT !.ops = 3, !.sent = 14]
ReconnectNeverReached == ~ReconnectReached

-----------------------------------------------------------------------------
(* Properties *)

\* C1 (as stated): a wait for the reply to a command returns only on the
\* inbound message whose id is the id of that command.
WaitResolvesOnlyOnMatchingId ==
  obs.took.wait # "none" => obs.took.id = obs.took.cmd

\* C1 (amended): a wait for the reply to a command returns only on the
\* message whose id is the id of that command, except that the wait for
\* Target.attachToTarget also returns on a Target.attachedToTarget event
\* that names the selected page target.
WaitResolvesOnMatchingIdOrAttachedEvent ==
  obs.took.wait # "none" =>
    \/ obs.took.id = obs.took.cmd
    \/ /\ obs.took.wait = "attach_wait"
       /\ obs.took.event = "Target.attachedToTarget"
       /\ obs.took.tgt = self.page_target_id

\* a turn's DOM.getDocument wait returned on its own reply after it had
\* read and skipped other messages
WaitSkippedOthersThenResolved ==
  /\ co.op = "turn"
  /\ obs.took.wait = "doc_wait"
  /\ obs.took.skipped
  /\ obs.took.id = obs.took.cmd

\* C2: every id returned by _send_cdp_command is greater than every id
\* returned before, whatever operations were run in between.
CommandIdsStrictlyIncrease == obs.idFresh

\* the third operation, a connect after a close, has sent Target.getTargets
\* with an id above those of the earlier commands
IdIssuedAfterCloseAndReconnect ==
  /\ obs.ops = 3
  /\ co.op = "connect"
  /\ co.pc = "targets_wait"
  /\ co.cmd_id >= 4
  /\ obs.idFresh

\* the URL test of the capture: prefix for the standard client, substring
\* for the M365 client
SatisfiesFilter(v, url) ==
  IF v = "standard" THEN StartsWith(url, UrlFilter) ELSE Contains(url, UrlFilter)

RecordedChatId ==
  IF self.variant = "standard" THEN self.chat_websocket_request_id
  ELSE self.current_m365_chat_ws_request_id

\* C3: the capture records a request id only from a Network.webSocketCreated
\* event of the page session whose URL satisfies the filter, and it is the
\* requestId of the first such event read by the capture.
CaptureTakesFirstMatchingSocket ==
  obs.cap.taken =>
    /\ obs.cap.sid = self.page_cdp_session_id
    /\ SatisfiesFilter(self.variant, obs.cap.url)
    /\ ~obs.cap.earlier
    /\ co.pc \in {"click", "monitor"} => RecordedChatId = obs.cap.req

\* a capture returned after it had rejected another socket-created event
CapturedAfterRejecting ==
  /\ obs.cap.taken
  /\ obs.cap.rejected
  /\ co.pc = "monitor"
  /\ RecordedChatId = obs.cap.req

\* C4: the standard decoder yields the text of each appendText frame of the
\* captured socket, in arrival order, and returns at the done frame without
\* yielding for it or after it.
StandardYieldsAppendedTexts ==
  self.variant = "standard" =>
    /\ co.yielded = obs.appended
    /\ obs.doneSeen =>
         /\ co.pc = "idle"
         /\ co.result = [op |-> "turn", out |-> "returned"]

\* appendText "Hi", appendText "Bye", done
StandardScriptDone ==
  /\ self.variant = "standard"
  /\ obs.doneSeen
  /\ co.yielded = <<Hi, Bye>>

RECURSIVE AllEmitted(_)
AllEmitted(log) ==
  IF log = <<>> THEN <<>> ELSE log[1].emitted \o AllEmitted(Tail(log))

\* the chunks logged for the updates of the last frame are the last
\* chunks the turn yielded
LoggedChunksWereYielded ==
  LET e == AllEmitted(obs.updates)
  IN  /\ Len(e) <= Len(co.yielded)
      /\ SubSeq(co.yielded, Len(co.yielded) - Len(e) + 1, Len(co.yielded)) = e

\* C5: when the full text of an update extends the previous full text, the
\* M365 decoder yields exactly the appended suffix for it (the whole text
\* when it is the first text of the turn).
AppendYieldsSuffix ==
  /\ LoggedChunksWereYielded
  /\ \A i \in DOMAIN obs.updates :
       LET e == obs.updates[i]
       IN  (StartsWith(e.cur, e.prev) /\ e.cur # e.prev) =>
             /\ e.emitted = <<SubSeq(e.cur, Len(e.prev) + 1, Len(e.cur))>>
             /\ ~e.warned

\* full texts "Hi" then "Hi there" yielded "Hi" then " there"
AppendScriptYielded ==
  /\ co.yielded = <<Hi, There>>
  /\ Len(obs.updates) = 1
  /\ obs.updates[1].prev = Hi
  /\ obs.updates[1].cur = HiThere

IsShrink(e) == e.prev # <<>> /\ StartsWith(e.prev, e.cur) /\ e.cur # e.prev

IsDivergent(e) ==
  e.prev # <<>> /\ ~StartsWith(e.cur, e.prev) /\ ~StartsWith(e.prev, e.cur)

\* C7: when neither the previous nor the new full text is a prefix of the
\* other, the M365 decoder yields the whole new text, records a warning,
\* and the turn goes on without raising.
DivergentYieldsWholeText ==
  \A i \in DOMAIN obs.updates :
    IsDivergent(obs.updates[i]) =>
      /\ obs.updates[i].emitted = <<obs.updates[i].cur>>
      /\ obs.updates[i].warned
      /\ co.pc = "monitor" \/ co.result = [op |-> "turn", out |-> "returned"]

\* full texts "Hi" then "Bye" yielded "Hi" then "Bye", the turn still runs
DivergentScriptYielded ==
  /\ co.yielded = <<Hi, Bye>>
  /\ co.pc = "monitor"
  /\ Len(obs.updates) = 1
  /\ obs.updates[1].prev = Hi
  /\ obs.updates[1].cur = Bye

\* C8: reinitialize_page_session on a ready page keeps is_page_initialized
\* false until navigation and polling succeeded, sends neither
\* Target.getTargets nor Target.attachToTarget, leaves the target and
\* session ids as they were, and resets the turn-local state.
ReinitializeKeepsAttachment ==
  (obs.fromReady /\ (co.op = "reinit" \/ co.result.op = "reinit")) =>
    /\ ~obs.sentTargetCmd
    /\ self.page_target_id = obs.snapTarget
    /\ self.page_cdp_session_id = obs.snapSession
    /\ self.last_full_response_text = <<>>
    /\ self.current_m365_chat_ws_request_id = None
    /\ ~self.is_first_message_sent
    /\ self.is_page_initialized <=> co.result = [op |-> "reinit", out |-> "True"]

\* a reinitialize that started after a turn had left state behind succeeded
ReinitializedAfterTurn ==
  /\ obs.fromReady
  /\ obs.wasDirty
  /\ co.result = [op |-> "reinit", out |-> "True"]
  /\ self.is_page_initialized

FoundAtFirstPresentCheck ==
  (co.op \in {"connect", "reinit"}
     /\ (obs.presentSincePoll > 0 \/ co.critical_element_found)) =>
    /\ co.critical_element_found
    /\ obs.pollCount = obs.presentSincePoll
    /\ co.pc = "enable_domains"

\* the element was reported, and found, at the third check
FoundAtThirdCheck ==
  /\ co.critical_element_found
  /\ obs.pollCount = 3
  /\ obs.presentSincePoll = 3

\* C11: page_cdp_session_id is set only while is_browser_cdp_connected is
\* true, and an operation in which a command was to be sent with the
\* transport closed or gone (the send raised, or a helper skipped it) never
\* reports success: it ends with an exception or a False result.
SendAfterDisconnectFails ==
  /\ self.page_cdp_session_id # None => self.is_browser_cdp_connected
  /\ (obs.deadSend /\ co.pc = "idle") => co.result.out \in {"raised", "False"}

\* a turn sent a command on a transport that had dropped under it: the
\* send raised and the turn ended with that exception
SendOnDroppedTransportRaised ==
  /\ obs.deadSend
  /\ co.result = [op |-> "turn", out |-> "raised"]
  /\ self.browser_cdp_ws = "closed"
  /\ self.page_cdp_session_id # None

\* the client object as connect() found it, but for what the browser did
\* on its own since (the transport dropped, the process exited)
SameClient(now, before) ==
  /\ [now EXCEPT !.browser_cdp_ws = "", !.edge_process = ""]
       = [before EXCEPT !.browser_cdp_ws = "", !.edge_process = ""]
  /\ now.browser_cdp_ws \in {before.browser_cdp_ws, "closed"}
  /\ now.edge_process \in {before.edge_process, "exited"}

\* C12: connect() on a client whose page is ready returns True without
\* launching, opening a transport or sending a command: the command
\* counter, the target and session ids, the flags and the turn state are
\* as they were.
ConnectWhenReadyIsNoOp ==
  (obs.fromReady /\ (co.op = "connect" \/ co.result.op = "connect")) =>
    /\ SameClient(self, obs.snap)
    /\ co.pc \in {"connect_to_browser_and_page", "connect_page_init", "idle"}
    /\ co.pc = "idle" => co.result.out = "True"
    /\ obs.lastId <= obs.snap.cdp_message_id_counter

\* connect() returned True on a client that a turn had used before
ConnectedAgainWhenReady ==
  /\ obs.fromReady
  /\ co.result = [op |-> "connect", out |-> "True"]
  /\ self.is_first_message_sent
  /\ self.cdp_message_id_counter > 0
  /\ self.chat_websocket_request_id # None

\* no transport, no session, no process
ClosedDown(s) ==
  /\ s.browser_cdp_ws = None
  /\ ~s.is_browser_cdp_connected
  /\ s.page_cdp_session_id = None
  /\ ~s.is_page_initialized
  /\ s.edge_process = None

\* ... and no page target
TornDown(s) == ClosedDown(s) /\ s.page_target_id = None

\* C13 (as stated): whenever connect() returns False, the client has been
\* torn down: no transport, not connected, no session and target ids, page
\* not initialized, no process handle.
FailedConnectIsTornDown ==
  (co.pc = "idle" /\ co.result = [op |-> "connect", out |-> "False"]) =>
    TornDown(self)

\* C13 (amended): whenever connect() returns False because the endpoint
\* fetch, the opening of the transport or the attachment to a page target
\* failed, then before it returns the transport is closed and forgotten,
\* is_browser_cdp_connected and is_page_initialized are false,
\* page_cdp_session_id is None and the process handle is cleared; when the
\* step that failed is the attachment, page_target_id is None as well.
FailedAttachIsTornDown ==
  [][(co'.pc = "idle" /\ co'.result.out = "False") =>
       /\ co.pc \in {"fetch", "ws_connect"} => ClosedDown(self')
       /\ co.pc \in {"targets_send", "targets_wait", "attach_wait"} =>
            TornDown(self')]_vars

\* connect() returned False on an error reply to Target.attachToTarget,
\* and the transport it had opened is gone
AttachRefusedAndClosed ==
  /\ co.result = [op |-> "connect", out |-> "False"]
  /\ obs.took.wait = "attach_wait"
  /\ self.browser_cdp_url # None
  /\ TornDown(self)

\* C14: when the navigation wait or the readiness polling fails (error
\* reply, timeout, element not found in time), the client object is left
\* as it was: transport, is_browser_cdp_connected, page_target_id,
\* page_cdp_session_id and the process handle are unchanged and set, and
\* is_page_initialized is false.
NavigationFailureKeepsAttachment ==
  [][(/\ co.pc \in {"nav_wait", "poll_top"}
      /\ co'.pc = "idle"
      /\ co'.result.out = "False") =>
       /\ self' = self
       /\ self'.browser_cdp_ws # None
       /\ self'.is_browser_cdp_connected
       /\ self'.page_target_id # None
       /\ self'.page_cdp_session_id # None
       /\ self'.edge_process = "running"
       /\ ~self'.is_page_initialized]_vars

\* connect() returned False when the readiness polling ran out of time, and
\* the client is still attached over an open transport
ReadinessTimedOutStillAttached ==
  /\ co.result = [op |-> "connect", out |-> "False"]
  /\ obs.pollCount > 0
  /\ WsOpen(self)
  /\ self.is_browser_cdp_connected
  /\ self.page_cdp_session_id = PageSession
  /\ self.edge_process = "running"
  /\ ~self.is_page_initialized

\* the fields that make up the browser session
Session(s) ==
  <<s.edge_process, s.browser_cdp_ws, s.is_browser_cdp_connected,
    s.page_target_id, s.page_cdp_session_id, s.is_page_initialized>>

\* C15: a turn that ends because the input element was not found or because
\* the capture returned no id ends with an exception and leaves the browser
\* process, the transport, is_browser_cdp_connected, page_target_id,
\* page_cdp_session_id and is_page_initialized as they were: the next turn
\* passes its entry test and connect() would neither launch nor attach.
TurnFailureKeepsSession ==
  [][(/\ co.op = "turn"
      /\ co.pc \in {"query_wait", "capture"}
      /\ co'.pc = "idle") =>
       /\ co'.result = [op |-> "turn", out |-> "raised"]
       /\ Session(self') = Session(self)
       /\ PageReady(self')
       /\ self'.browser_cdp_ws # None
       /\ AlreadyAttached(self')]_vars

\* a turn raised on a DOM.querySelector reply without a node, and the
\* session is as ready as before
SelectorNotFoundSessionKept ==
  /\ co.result = [op |-> "turn", out |-> "raised"]
  /\ obs.took.wait = "query_wait"
  /\ obs.took.id = obs.took.cmd
  /\ PageReady(self)
  /\ WsOpen(self)
  /\ self.edge_process = "running"

\* C17: when a turn has ended, whether it raised at the submit step or at
\* the wait for the capture, no capture task that it started is still
\* running: the task was cancelled or has returned.
NoCaptureOutlivesItsTurn ==
  co.pc = "idle" => (co.capture_task = "none" /\ co.leaked = NoLeak)

\* C18: in a turn that needs a capture, of either variant, the capture is
\* running when the click is about to be sent, and the turn never waits
\* for the capture before the click has been sent.
ClickNeverWaitsForCapture ==
  /\ (co.op = "turn" /\ co.pc = "capture") => obs.clicked
  /\ (/\ co.op = "turn"
      /\ co.pc = "click"
      /\ self.variant = "standard"
      /\ self.chat_websocket_request_id = None) => co.capture_task = "running"

\* C19: a matching socket-created event is captured whether it is delivered
\* before, during or after the click, so a capture gives up only in a turn
\* whose click has been sent: a socket that the click creates is captured.
\* (The transport is still open: the capture did not end for a lost
\* connection.)
CaptureGivesUpOnlyAfterClick ==
  (obs.capExpired /\ WsOpen(self)) => obs.clicked

\* the id the monitoring loop of the variant filters on
MonitoredId(s) ==
  IF s.variant = "standard" THEN s.chat_websocket_request_id
  ELSE s.current_m365_chat_ws_request_id

\* C20: a capture that sees no matching socket-created event ends when its
\* time is over; the turn then has raised, has yielded no chunk and is not
\* in the monitoring loop, which is entered only with a captured id.
CaptureFailureEndsTurn ==
  /\ obs.capExpired =>
       /\ co.pc = "idle"
       /\ co.result = [op |-> "turn", out |-> "raised"]
       /\ co.yielded = <<>>
       /\ MonitoredId(self) = None
  /\ (co.op = "turn" /\ co.pc = "capture") =>
       co.elapsed < CaptureTimeout + CaptureRecvTimeout
  /\ (co.op = "turn" /\ co.pc = "monitor") => MonitoredId(self) # None

\* a capture ran out of time on an open transport after it had read
\* socket-created events that did not match
CaptureExpiredAfterRejecting ==
  /\ obs.capExpired
  /\ WsOpen(self)
  /\ obs.cap.rejected
  /\ ~obs.cap.taken
  /\ co.result = [op |-> "turn", out |-> "raised"]

\* C16: a client never has two capture listeners that are both still
\* active: no capture is started while a capture of an earlier turn runs.
AtMostOneActiveCapture ==
  ~(co.capture_task = "running" /\ co.leaked # NoLeak)

\* C21: the standard client, once it holds a captured id, starts no capture
\* in a later turn; the M365 client monitors only with the id that the
\* capture of the same turn returned, and holds no id when no turn runs.
CaptureIdCachingPolicy ==
  /\ (/\ self.variant = "standard"
      /\ co.op = "turn"
      /\ self.chat_websocket_request_id # None
      /\ ~obs.cap.taken) => (co.capture_task = "none" /\ co.pc # "capture")
  /\ (/\ self.variant = "m365"
      /\ co.op = "turn"
      /\ co.pc = "monitor") =>
       /\ obs.cap.taken
       /\ obs.cap.req = self.current_m365_chat_ws_request_id
  /\ (self.variant = "m365" /\ co.pc = "idle") =>
       self.current_m365_chat_ws_request_id = None

\* C22: a turn that is monitoring (no terminal marker seen so far) when the
\* transport closes ends by raising: it never ends like a complete reply.
MidStreamCloseRaises ==
  [][(/\ co.op = "turn"
      /\ co.pc = "monitor"
      /\ ~WsOpen(self)
      /\ co'.pc = "idle") => co'.result.out = "raised"]_vars

\* C26: for each supported copilot_type ("standard", "m365") the factory
\* produces a client that supports connect, send_message_and_get_response,
\* reinitialize_page_session and close; for an unknown type it produces
\* None.  Stated once the lifespan has called the factory.
FactoryClientSupportsCoreOperations ==
  co.serving # "starting" =>
    IF self.variant \in {"standard", "m365"}
    THEN /\ co.instance = "client"
         /\ {"connect", "send_message_and_get_response",
             "reinitialize_page_session", "close"} \subseteq Methods(self.variant)
    ELSE co.instance = "none"

\* C24: every event stream of stream_response_generator ends with exactly
\* one "[DONE]", as its last item.  The item before it is the chunk with
\* finish_reason "stop" exactly when the turn completed normally, and the
\* "error" chunk when the client was not connected or the turn raised;
\* everything before are data chunks.
StreamEndsWithOneDone ==
  [][(co.serving # "done" /\ co'.serving = "done") =>
       LET items == SseItems(co')
           n == Len(items)
       IN  /\ n >= 2
           /\ items[n] = "[DONE]"
           /\ \A i \in 1..(n - 1) : items[i] # "[DONE]"
           /\ \A i \in 1..(n - 2) : items[i] = "chunk"
           /\ items[n - 1] = "stop" <=>
                (co.serving = "stream" /\ co.result.out = "returned")
           /\ (co.serving = "response" \/ co.result.out = "raised") =>
                items[n - 1] = "error"]_vars

StreamFailedAfterChunks ==
  /\ co.serving = "done"
  /\ Len(co.yielded) > 0
  /\ SseItems(co)[Len(co.yielded) + 1] = "error"

\* C23: turns never overlap on the shared page session: while the turn of
\* the first request is in progress (its monitoring loop has neither
\* returned nor raised), a second request has sent no protocol command and
\* is not reading from the debug transport.
TurnsNeverOverlap ==
  (co.serving = "stream" /\ co.op = "turn") =>
    (co.other_cmd = 0 /\ co.other # "doc_wait")

\* C25: every wait for the reply to Target.getTargets, Target.attachToTarget,
\* DOM.getDocument or DOM.querySelector ends after a bounded number of
\* received messages, even when unrelated messages keep arriving and the
\* reply never comes: a wait that has received MaxReads messages has ended.
ReplyWaitReadsBounded ==
  co.pc \in {"targets_wait", "attach_wait", "doc_wait", "query_wait"} =>
    obs.reads < MaxReads

\* C27: the wait after Target.attachToTarget returns on whichever comes
\* first of the command's reply with a session id and a
\* Target.attachedToTarget event for the selected target, and the attach
\* then has that session id; an attached event for another target never
\* ends the wait; an error reply to the command makes the attach fail.
AttachTakesFirstSessionSource ==
  obs.took.wait = "attach_wait" =>
    IF obs.took.refused
    THEN /\ co.pc = "idle"
         /\ co.result.out = "False"
         /\ self.page_cdp_session_id = None
    ELSE /\ self.page_cdp_session_id = PageSession
         /\ \/ obs.took.id = obs.took.cmd
            \/ /\ obs.took.event = "Target.attachedToTarget"
               /\ obs.took.tgt = self.page_target_id

\* the attached event came before the reply, after other messages
AttachedByEventBeforeReply ==
  /\ obs.took.wait = "attach_wait"
  /\ obs.took.event = "Target.attachedToTarget"
  /\ obs.took.skipped
  /\ co.pc = "connect_page_init"
  /\ \E p \in env.pending : p.id = obs.took.cmd

\* C28: readiness gating.  A domain-enable command is sent, and
\* is_page_initialized becomes true, only once the critical element has
\* been found; the element is looked for only by the polling loop, and the
\* polling loop is entered only on the successful reply to Page.navigate;
\* an error reply to Page.navigate ends the step with failure, with no
\* command sent after it and is_page_initialized not set.
ReadinessGating ==
  [][/\ \A p \in env'.pending \ env.pending :
          (\E i \in 1..Len(Domains) : p.method = Domains[i]) =>
            (co.pc = "enable_domains" /\ co.critical_element_found)
     /\ (~self.is_page_initialized /\ self'.is_page_initialized) =>
          (co.pc = "enable_domains" /\ co.critical_element_found
             /\ co.domain_idx = Len(Domains))
     /\ (~co.critical_element_found /\ co'.critical_element_found) =>
          (co.pc = "query_wait" /\ co.caller = "poll")
     /\ (co.pc = "nav_wait" /\ co'.pc = "poll_top") =>
          (obs'.took.id = co.cmd_id /\ ~obs'.took.refused)
     /\ (co.pc = "nav_wait" /\ obs'.took.refused) =>
          /\ co'.pc = "idle"
          /\ co'.result.out = "False"
          /\ ~self'.is_page_initialized
          /\ obs'.sent = obs.sent]_vars

\* a connect() that found the element at a later check and enabled the
\* four domains
InitializedAfterGating ==
  /\ co.result = [op |-> "connect", out |-> "True"]
  /\ self.is_page_initialized
  /\ obs.pollCount >= 2
  /\ \E p \in env.pending : p.method = Domains[Len(Domains)]

\* C29: within one turn the commands are sent in the fixed order
\* DOM.getDocument, DOM.querySelector, DOM.focus, Input.insertText,
\* Runtime.evaluate; when the document root is not obtained or the reply to
\* DOM.querySelector has nodeId 0 or none, the turn raises and none of
\* DOM.focus, Input.insertText and Runtime.evaluate is sent.
TurnCommandOrder ==
  <<"DOM.getDocument", "DOM.querySelector", "DOM.focus", "Input.insertText",
    "Runtime.evaluate">>

TurnCommandsInFixedOrder ==
  /\ Len(obs.turnCmds) <= Len(TurnCommandOrder)
  /\ \A i \in 1..Len(obs.turnCmds) : obs.turnCmds[i] = TurnCommandOrder[i]
  /\ (obs.took.empty /\ (co.op = "turn" \/ co.result.op = "turn")) =>
       /\ co.pc = "idle"
       /\ co.result.out = "raised"
       /\ Len(obs.turnCmds) <= 2

SelectorNotFoundNothingTyped ==
  /\ co.result = [op |-> "turn", out |-> "raised"]
  /\ obs.took.wait = "query_wait"
  /\ obs.took.empty
  /\ obs.turnCmds = <<"DOM.getDocument", "DOM.querySelector">>

\* C30: at no point during a turn are two coroutines of the client waiting
\* in recv() on the debug transport: while a capture task runs, the
\* coroutine of the turn is not in one of its own waits for a message.
TurnReceives ==
  /\ co.op = "turn"
  /\ \/ co.pc \in {"doc_wait", "query_wait", "monitor"}
     \/ (co.pc = "capture" /\ self.variant = "m365")

TaskReceives ==
  /\ WsOpen(self)
  /\ (co.capture_task = "running" \/ co.leaked # NoLeak)

OneReceiverDuringTurn == ~(TurnReceives /\ TaskReceives)

\* C31: in the event-tagged monitoring loop a message that is not a frame of
\* the captured socket of the page session, or whose payload is unparseable
\* or carries an event other than appendText and done, changes neither the
\* output nor the client and leaves the turn monitoring; an appendText frame
\* of the captured socket adds exactly its text to the output, and its done
\* frame ends the turn with the output as it is.
OnCapturedSocket(m) ==
  /\ m.kind # "error"
  /\ m.sid = obs.cap.sid
  /\ m.method = "Network.webSocketFrameReceived"
  /\ m.str = obs.cap.req
StrayFramesAreIgnored ==
  [][(co.pc = "monitor" /\ obs.frame.on /\ WsOpen(self) /\ WsOpen(self')) =>
       LET m == obs'.frame.m
           o == JsonLoads(m.payload)
       IN  /\ (m.kind # "error"
                /\ (~OnCapturedSocket(m) \/ o.event \notin {"appendText", "done"}))
                 => /\ co' = co
                    /\ self' = self
           /\ (OnCapturedSocket(m) /\ o.event = "appendText")
                 => /\ co'.yielded = Append(co.yielded, IF o.hasText THEN o.text ELSE <<>>)
                    /\ co'.pc = "monitor"
           /\ (OnCapturedSocket(m) /\ o.event = "done")
                 => /\ co'.yielded = co.yielded
                    /\ co'.pc = "idle"
                    /\ co'.result = [op |-> "turn", out |-> "returned"]]_vars

\* "Hi" was yielded, then an unparseable frame of the captured socket was
\* read, and the turn is still monitoring with the same output
UnparseableFrameSkipped ==
  /\ obs.frame.on
  /\ OnCapturedSocket(obs.frame.m)
  /\ JsonLoads(obs.frame.m.payload) = BadJson
  /\ co.pc = "monitor"
  /\ co.yielded = <<Hi>>

\* C32: is_first_message_sent becomes true only in the step in which a turn
\* returns after its terminal marker; a turn that raises leaves it false.
FlagSetOnlyBySuccessfulTurn ==
  [][(~self.is_first_message_sent /\ self'.is_first_message_sent) =>
       /\ co'.pc = "idle"
       /\ co'.result = [op |-> "turn", out |-> "returned"]]_vars

\* C33: last_final_chat_message is the last message of the most recent
\* successful request: a request that was rejected with an HTTP error, or
\* whose turn failed (the event stream closed with an error item, or the
\* completion was answered with 503 or 500), has left it as it was, here
\* None.
LastMessageKeptByFailedRequest ==
  (\/ co.serving \in {"refused", "rejected", "failed", "errored"}
   \/ co.serving = "done" /\ \E i \in 1..Len(co.sse) : co.sse[i] = "error")
    => co.last_final_chat_message = <<>>

\* C34: a request continues the session exactly when a previous last message
\* is stored and equals the request's message at index -3 (three or more
\* messages) or at index -2 (two or more); for every other request
\* reinitialize_page_session() is called before the turn and the prompt is
\* rebuilt from all messages; when the reinitialization fails the request
\* is answered with 503 and nothing is typed into the page.
Continues(msgs, lfc) ==
  /\ lfc # <<>>
  /\ \E k \in {2, 3} : Len(msgs) >= k /\ msgs[Len(msgs) - k + 1] = lfc[1]
NewSessionReinitializesOr503 ==
  /\ co.serving = "reinit" =>
       ~Continues(co.messages, co.last_final_chat_message)
  /\ (co.serving \in {"connect", "response", "stream", "collect"}
        /\ ~Continues(co.messages, <<>>))
       => co.final_prompt = PromptOfAll(co.messages)
  /\ (co.result.op = "reinit" /\ co.result.out # "True" /\ co.serving # "reinit")
       => /\ co.serving = "refused"
          /\ obs.turnCmds = <<>>

\* the decision alone, over every request of up to MaxMessages messages and
\* every stored message
ContinuationDecidesReinitialization ==
  co.serving \in {"reinit", "connect"} =>
    /\ co.serving = "connect" <=> Continues(co.messages, co.last_final_chat_message)
    /\ co.op = (IF co.serving = "reinit" THEN "reinit" ELSE "connect")
    /\ obs.turnCmds = <<>>

\* a request of three messages whose first is the stored one, and whose
\* second is not, went to connect() without reinitialization
ContinuedByThirdLast ==
  /\ co.serving = "connect"
  /\ co.op = "connect"
  /\ Len(co.messages) = 3
  /\ <<co.messages[1]>> = co.last_final_chat_message
  /\ <<co.messages[2]>> # co.last_final_chat_message

\* ... and of two messages whose first is the stored one
ContinuedBySecondLast ==
  /\ co.serving = "connect"
  /\ Len(co.messages) = 2
  /\ <<co.messages[1]>> = co.last_final_chat_message

\* a reinitialization that did not return True ends the request before its
\* turn: nothing was typed into the page
ReinitializationFailureSendsNothing ==
  (co.result.op = "reinit" /\ co.result.out # "True" /\ co.serving # "reinit") =>
    /\ co.serving \in {"refused", "failed"}
    /\ co.pc = "idle"
    /\ obs.turnCmds = <<>>

\* C35: a launch in which the profile directory is absent and cannot be
\* created goes on to spawn the browser instead of reporting failure; a
\* launch whose process has exited by the end of the settle delay reports
\* failure and clears the process handle.
LaunchSurvivesProfileDirectoryFailure ==
  [][co.pc = "launch" =>
       /\ obs'.launch.outcome = "mkdir_failed" =>
            /\ self'.edge_process = "running"
            /\ co'.pc = "cdp_ws"
       /\ obs'.launch.outcome = "exited" =>
            /\ self'.edge_process = None
            /\ co'.pc = "idle"
            /\ co'.result.out = "False"]_vars

\* C36: once a turn has ended because the debug transport was lost, the
\* client no longer counts as attached (is_browser_cdp_connected with a
\* page session id), so that the next connect() opens a new transport.
LostTransportEndsAttachment ==
  [][(co.pc = "monitor" /\ ~WsOpen(self) /\ co'.pc = "idle") =>
       ~AlreadyAttached(self')]_vars

\* C37: in the session opened by connect() after a close(), the chat socket
\* id of the session before is not used: the first turn monitors with an id
\* that its own capture has recorded.
ReconnectedTurnCapturesAgain ==
  (co.op = "turn" /\ co.pc = "monitor") =>
    /\ obs.cap.taken
    /\ RecordedChatId = obs.cap.req

\* C38: the delimiter-framed decoder does not depend on how the stream is cut
\* into frames: after any frames, the chunks yielded, the text remembered,
\* the unprocessed remainder and whether the turn has returned are those of
\* the same symbols arriving as one payload; what follows the last
\* separator stays unprocessed.
DecodedAsOnePayload ==
  LET r == ProcessBuffer(obs.fed.payload, <<>>, <<>>, <<>>)
  IN  (obs.fed.on /\ co.result.out # "raised") =>
        /\ co.yielded = r.out
        /\ self.last_full_response_text = r.last
        /\ r.done <=> co.pc = "idle"
        /\ co.pc = "monitor" =>
             /\ co.accumulated_payload = r.buf
             /\ ~HasRS(r.buf)

\* the two halves of an update and its separator came in at least two
\* frames, and then the completion: "Hi there" was yielded once
CutUpdateDecoded ==
  /\ obs.fed.on
  /\ obs.fed.payload = <<Half1(Update(HiThere)), Half2(Update(HiThere)), RS,
                         Whole(Complete), RS>>
  /\ co.yielded = <<HiThere>>
  /\ co.result = [op |-> "turn", out |-> "returned"]

\* the texts of the update segments of a payload, up to its completion
RECURSIVE UpdateTexts(_)
UpdateTexts(payload) ==
  IF ~HasRS(payload) THEN <<>>
  ELSE LET i == FirstRS(payload)
           o == JsonLoads(SubSeq(payload, 1, i - 1))
           rest == UpdateTexts(SubSeq(payload, i + 1, Len(payload)))
       IN  IF i = 1 THEN rest
           ELSE IF o.type = 3 THEN <<>>
           ELSE IF o.type = 1 /\ o.target = "update" /\ o.hasText THEN <<o.text>> \o rest
           ELSE rest

RECURSIVE Concatenated(_)
Concatenated(chunks) ==
  IF chunks = <<>> THEN <<>> ELSE chunks[1] \o Concatenated(Tail(chunks))

Extends(cur, prev) == Len(prev) <= Len(cur) /\ SubSeq(cur, 1, Len(prev)) = prev

\* C39 (as stated): last_full_response_text is empty until the turn has
\* processed an update and is then the full text of the update processed
\* last; as long as every update extends the one before it, the chunks
\* yielded so far, end to end, are last_full_response_text at every point
\* of the turn.
ProcessedTexts ==
  LET texts == UpdateTexts(SubSeq(obs.fed.payload, 1,
                                  Len(obs.fed.payload) - Len(co.accumulated_payload)))
  IN  IF co.pc = "yielding" THEN SubSeq(texts, 1, Len(texts) - 1) ELSE texts
YieldedDeltasRebuildText ==
  LET texts == UpdateTexts(obs.fed.payload)
  IN  obs.fed.on =>
        /\ self.last_full_response_text =
             (IF ProcessedTexts = <<>> THEN <<>>
              ELSE ProcessedTexts[Len(ProcessedTexts)])
        /\ (\A i \in 2..Len(texts) : Extends(texts[i], texts[i - 1]))
             => Concatenated(co.yielded) = self.last_full_response_text

\* C39 (amended): ... the chunks yielded so far, end to end, are
\* last_full_response_text whenever the decoder is not suspended at a
\* yield; while it is, they are the text of the update being delivered and
\* last_full_response_text is still the text before it.
YieldedDeltasRebuildTextBetweenYields ==
  LET texts == UpdateTexts(obs.fed.payload)
  IN  obs.fed.on =>
        /\ self.last_full_response_text =
             (IF ProcessedTexts = <<>> THEN <<>>
              ELSE ProcessedTexts[Len(ProcessedTexts)])
        /\ (\A i \in 2..Len(texts) : Extends(texts[i], texts[i - 1]))
             => Concatenated(co.yielded) =
                  (IF co.pc = "yielding" THEN co.current_full_text
                   ELSE self.last_full_response_text)

\* "Hi" then "Hi there": the chunk " there" is being delivered and the
\* remembered text is still "Hi"
SuspendedAtSecondChunk ==
  /\ obs.fed.on
  /\ co.pc = "yielding"
  /\ co.yielded = <<Hi, There>>
  /\ co.current_full_text = HiThere
  /\ self.last_full_response_text = Hi

\* ... and once the consumer has resumed the decoder, the chunks rebuild the
\* remembered text
ExtendingUpdatesRebuilt ==
  /\ obs.fed.on
  /\ co.pc = "monitor"
  /\ UpdateTexts(obs.fed.payload) = <<Hi, HiThere>>
  /\ co.yielded = <<Hi, There>>
  /\ self.last_full_response_text = HiThere

\* C40: every turn started on an initialized session eventually ends, by
\* returning or by raising, also when the chat service sends no terminal
\* marker, or no frame at all, while the debug transport stays open.
EveryTurnEnds == (co.pc = "monitor") ~> (co.result.op = "turn")

\* the loop has no step to take once the service is silent, nothing is
\* pending and the transport is open: recv() has no timeout
SilentServiceBlocksTheLoop ==
  (co.pc = "monitor" /\ env.quiet /\ env.pending = {} /\ WsOpen(self))
    => ~ENABLED (StreamStandard \/ StreamM365)

\* ... and it raises as soon as the transport is lost
LostTransportUnblocksTheLoop ==
  (co.pc = "monitor" /\ ~WsOpen(self)) => ENABLED (StreamStandard \/ StreamM365)

\* a turn waiting on an open transport for a service that sends nothing
WaitingOnSilentService ==
  /\ co.pc = "monitor"
  /\ env.quiet
  /\ env.pending = {}
  /\ WsOpen(self)
  /\ co.yielded # <<>>
====
